---- MODULE Spec2Model ----
(***************************************************************************)
(* QUASAR agent core: the process-wide credential store                    *)
(* (models/credentials.py), the model router (models/router.py), the       *)
(* provider registry (models/providers.py) and the orchestrator's request  *)
(* paths (orchestrator.py): the streaming path process_stream /            *)
(* _agentic_loop_stream / _simple_stream and the non-streaming path        *)
(* process / _agentic_loop / _simple_invoke / invoke_with_fallback.        *)
(*                                                                         *)
(* A request is one sequential coroutine; every yield and every await of   *)
(* the code is a step boundary of the model.  The events a request yields  *)
(* are observed by a monitor record (mon) that keeps what the ordering     *)
(* properties need instead of the whole event list, so that a request that *)
(* retries for ever revisits a state.                                      *)
(***************************************************************************)
EXTENDS Integers, Sequences, FiniteSets, TLC

----------------------------------------------------------------------------
(* Bounds of the model *)

\* config.py:188 sets MAX_TOOL_ITERATIONS = 30; the loop only compares the
\* iteration counter with it, and the model runs the same loop with a small
\* budget.
MAX_TOOL_ITERATIONS == 3

\* Credentials a provider can be configured with: _load_credentials reads
\* the slots _1 and _2 of every remote provider.
NumKeySlots == 2

\* Tool calls one request dispatches to its executor.
MaxDispatches == 4

\* context/manager.py:85 sets summarize_threshold = 5; add_message and
\* _trigger_summarization only compare lengths with it and slice by it, and
\* the model runs them with a small threshold.
summarize_threshold == 2

\* Tool calls whose operations one request is followed through.
MaxToolRuns == 3

\* read_file's MAX_LINES is 2000 (file_tools.py:140); read_file only
\* compares the line count with it, and the model reads small files.
MAX_LINES == 2

\* Characters of the files found in the workspace.
MaxFileChars == 2

\* list_files has MAX_FILES = 100 and MAX_DIRS = 50 (file_tools.py:496-497);
\* it only compares the lengths of its two lists with them, and the model
\* lists small directories.
MAX_FILES == 2
MAX_DIRS == 1

\* Items of the directories listed.
MaxItems == 4

\* Characters of the files patched at their n-th occurrence.
MaxPatchChars == 4

\* Words in a query text given to the keyword classifier.
MaxWords == 2

\* Lines the terminal output buffer keeps (500 in terminal_tools.py:27).
_max_buffer_lines == 2

----------------------------------------------------------------------------
(* Static configuration: config.py *)

\* Providers that own an entry of CredentialManager._providers.
Providers == {"cerebras", "groq", "ollama"}

\* A provider name no branch of ModelProviders.get_model knows.
UnknownProvider == "acme"

\* AgentConfig.PROVIDERS[p].models: model key -> model name.
ProviderModels ==
    [ cerebras |-> [ code_gen |-> "zai-glm-4.7" ],
      groq     |-> [ versatile |-> "llama-3.3-70b-versatile" ],
      ollama   |-> [ code |-> "glm-4.7:cloud" ] ]

\* AgentConfig.TASK_MODELS: task type -> chain of <<provider, model key>>.
TASK_MODELS ==
    [ code_generation     |-> << <<"cerebras", "code_gen">>,
                                 <<"groq", "versatile">>,
                                 <<"ollama", "code">> >>,
      code_explain_simple |-> << <<"ollama", "code">>,
                                 <<"groq", "versatile">>,
                                 <<"cerebras", "code_gen">> >> ]

TaskTypes == DOMAIN TASK_MODELS

\* AgentConfig.get_models_for_task
get_models_for_task(task) == TASK_MODELS[task]

\* AgentConfig.get_provider(p) is not None
HasProviderConfig(p) == p \in DOMAIN ProviderModels

\* model_key in provider_config.models
HasModelKey(p, key) == HasProviderConfig(p) /\ key \in DOMAIN ProviderModels[p]

\* provider_config.models[key].name if ... else "unknown"
ConfigModelName(p, key) ==
    IF HasModelKey(p, key) THEN ProviderModels[p][key] ELSE "unknown"

\* The emergency model of ModelRouter.get_model / invoke_with_fallback.
EmergencyOllamaModel == "qwen2.5-coder:7b"

\* The values of selected_model a caller sends: None / "Auto", or
\* "<provider>/<model_key>".
Auto == <<"Auto", "Auto">>
SelectedModels ==
    { Auto,
      <<"cerebras", "code_gen">>, <<"groq", "versatile">>,
      <<"ollama", "code">>, <<UnknownProvider, "x">> }

IsPinned(sel) == sel /= Auto

----------------------------------------------------------------------------
(* State *)

VARIABLES
    creds,        \* provider -> sequence of is_active flags (ProviderCredentials.credentials)
    cursor,       \* provider -> current_index (0-based, as in the code)
    rot,          \* outcome of the last rotate_credential call of the request
    bindable,     \* providers whose model class implements bind_tools
    req,          \* the request in progress (locals of the coroutine)
    mon,          \* what the consumer of the event stream has observed
    det,          \* a _LoopDetector fed directly, with the calls it was given
    exe,          \* the ToolExecutor of one request and what the loop did with it
    sbx,          \* the workspace's files and the latest file-tool call
    usr,          \* the request contexts with their user keys and settings
    ctx,          \* a ContextManager called directly
    run,          \* the tool operations of one request and the threads they run in
    fmt,          \* a tool result value and the text made of it for the model
    doc,          \* one workspace file and the content tools called on it
    tree,         \* a small workspace tree and the moves made in it
    lst,          \* a directory and what list_files returned for it
    cls,          \* a classifier answer and what classify_task returned
    kwd,          \* a query text and what the keyword classifier made of it
    trm,          \* the terminal output buffer and the latest run_terminal_command call
    par,          \* two requests running concurrently on the shared credential store
    shr,          \* the task context of the shared ContextManager and two requests using it
    pick          \* a listed model, the selected_model made of it and what the request parsed

\* The request path: the credential store, the environment, the request.
coreVars == <<creds, cursor, rot, bindable, req, mon>>

\* The components examined on their own, beside the request path.
toolVars == <<run, fmt, doc, tree, lst, cls>>
moreVars == <<kwd, trm, par, shr, pick>>
sideVars == <<det, exe, sbx, usr, ctx, toolVars, moreVars>>

vars == <<coreVars, sideVars>>

\* What the actions of one component leave alone.
besidesDet == <<coreVars, exe, sbx, usr, ctx, toolVars, moreVars>>
besidesExe == <<coreVars, det, sbx, usr, ctx, toolVars, moreVars>>
besidesSbx == <<coreVars, det, exe, usr, ctx, toolVars, moreVars>>
besidesUsr == <<rot, bindable, req, mon, det, exe, sbx, ctx, toolVars, moreVars>>
besidesCtx == <<coreVars, det, exe, sbx, usr, toolVars, moreVars>>
besidesRun == <<coreVars, det, exe, sbx, usr, ctx, fmt, doc, tree, lst, cls, moreVars>>
besidesFmt == <<coreVars, det, exe, sbx, usr, ctx, run, doc, tree, lst, cls, moreVars>>
besidesDoc == <<coreVars, det, exe, sbx, usr, ctx, run, fmt, tree, lst, cls, moreVars>>
besidesTree == <<coreVars, det, exe, sbx, usr, ctx, run, fmt, doc, lst, cls, moreVars>>
besidesLst == <<coreVars, det, exe, sbx, usr, ctx, run, fmt, doc, tree, cls, moreVars>>
besidesCls == <<coreVars, det, exe, sbx, usr, ctx, run, fmt, doc, tree, lst, moreVars>>
besidesKwd == <<coreVars, det, exe, sbx, usr, ctx, toolVars, trm, par, shr, pick>>
besidesTrm == <<coreVars, det, exe, sbx, usr, ctx, toolVars, kwd, par, shr, pick>>
besidesPar == <<coreVars, det, exe, sbx, usr, ctx, toolVars, kwd, trm, shr, pick>>
besidesShr == <<coreVars, det, exe, sbx, usr, ctx, toolVars, kwd, trm, par, pick>>
besidesPick == <<coreVars, det, exe, sbx, usr, ctx, toolVars, kwd, trm, par, shr>>
sideVarsBesidesPar == <<det, exe, sbx, usr, ctx, toolVars, kwd, trm, shr, pick>>

----------------------------------------------------------------------------
(* Credential store: models/credentials.py *)

\* CredentialManager._get_provider_creds(p) is not None.  No request-scoped
\* override is installed (user_credentials_context keeps its default {}).
HasProviderCreds(cr, p) == p \in DOMAIN cr

\* CredentialManager.get_credential(p) is not None
HasCredential(cr, cu, p) ==
    /\ HasProviderCreds(cr, p)
    /\ Len(cr[p]) > 0
    /\ cu[p] < Len(cr[p])
    /\ cr[p][cu[p] + 1]

\* CredentialManager.is_provider_available
is_provider_available(cr, p) ==
    IF p = "ollama" THEN TRUE
    ELSE /\ HasProviderCreds(cr, p)
         /\ Len(cr[p]) > 0
         /\ \E i \in 1..Len(cr[p]) : cr[p][i]

\* CredentialManager.rotate_credential: the store after the call and what
\* the call returns ("true", "false") or that it raises ("raise": the
\* modulo by the length of an empty list is a ZeroDivisionError).
rotate_credential(cr, cu, p) ==
    IF ~HasProviderCreds(cr, p)
    THEN [creds |-> cr, cursor |-> cu, result |-> "false"]
    ELSE LET current == cu[p]
             n       == Len(cr[p])
             marked  == IF current < n
                        THEN [cr EXCEPT ![p][current + 1] = FALSE]
                        ELSE cr
         IN  IF n = 0
             THEN [creds |-> marked, cursor |-> cu, result |-> "raise"]
             ELSE LET next_index == (current + 1) % n
                  IN  IF next_index = current
                      THEN [creds |-> marked, cursor |-> cu, result |-> "false"]
                      ELSE IF marked[p][next_index + 1]
                      THEN [creds |-> marked,
                            cursor |-> [cu EXCEPT ![p] = next_index],
                            result |-> "true"]
                      ELSE [creds |-> marked, cursor |-> cu, result |-> "false"]

\* CredentialManager.reset_credentials
reset_credentials(cr) ==
    [p \in DOMAIN cr |-> [i \in 1..Len(cr[p]) |-> TRUE]]

----------------------------------------------------------------------------
(* Provider registry and router: models/providers.py, models/router.py *)

\* A chat-model handle: the provider it talks to, the model name it was
\* built with and the index of the credential its constructor was given
\* (-1: none, the local provider takes no key).
NoModel == [provider |-> "none", name |-> "none", cred |-> -1]

\* ModelProviders.get_model
providers_get_model(cr, cu, provider, model_name) ==
    IF provider = "ollama"
    THEN [provider |-> "ollama", name |-> model_name, cred |-> -1]
    ELSE IF provider \in {"cerebras", "groq"}
    THEN IF HasCredential(cr, cu, provider)
         THEN [provider |-> provider, name |-> model_name, cred |-> cu[provider]]
         ELSE NoModel
    ELSE NoModel

\* ModelRouter.get_model_for_provider: a config key is resolved to the
\* model name, anything else is taken as the model name itself.
get_model_for_provider(cr, cu, provider, model_name_or_key) ==
    providers_get_model(cr, cu, provider,
        IF HasModelKey(provider, model_name_or_key)
        THEN ProviderModels[provider][model_name_or_key]
        ELSE model_name_or_key)

\* ModelRouter.get_model(task_type, fallback_level)
RECURSIVE router_get_model(_, _, _, _)
router_get_model(cr, cu, task, level) ==
    LET models == get_models_for_task(task)
    IN  IF level >= Len(models)
        THEN providers_get_model(cr, cu, "ollama", EmergencyOllamaModel)
        ELSE LET provider  == models[level + 1][1]
                 model_key == models[level + 1][2]
             IN  IF ~is_provider_available(cr, provider)
                 THEN router_get_model(cr, cu, task, level + 1)
                 ELSE IF ~HasModelKey(provider, model_key)
                 THEN router_get_model(cr, cu, task, level + 1)
                 ELSE LET model == providers_get_model(cr, cu, provider,
                                       ProviderModels[provider][model_key])
                      IN  IF model = NoModel
                          THEN router_get_model(cr, cu, task, level + 1)
                          ELSE model

----------------------------------------------------------------------------
(* Tool calls, the loop detector and the executor *)

\* Tool calls a model response can carry: the tool name and the arguments
\* as the list sorted(tool_args.items()) of <<key, value>> pairs.
CreateCall ==
    [name |-> "create_file", args |-> << <<"content", "x">>, <<"path", "b.py">> >>]
UnknownCall ==
    [name |-> "no_such_tool", args |-> << >>]
ToolCalls == {CreateCall, UnknownCall}

\* The tools bound to the model (get_tools_for_task); no_such_tool is not
\* one of them.
ToolNames == {"read_file", "create_file"}

\* What the underlying operation of a tool does when it is dispatched.
ToolOutcomes == {"ok", "error_dict", "exception", "timeout"}

\* The tool-call lists a model response carries in the model: one call of
\* a bound tool, one call of a tool that does not exist, and both.
ToolCallLists ==
    { <<CreateCall>>, <<UnknownCall>>, <<CreateCall, UnknownCall>> }

Min(a, b) == IF a < b THEN a ELSE b

\* _LoopDetector.add_call: the signature is the name and the first three
\* sorted items; the history keeps the last window_size signatures.
LoopWindow == 5
LoopThreshold == 3

CallSignature(call) ==
    <<call.name, SubSeq(call.args, 1, Min(3, Len(call.args)))>>

add_call(history, call) ==
    LET h == Append(history, CallSignature(call))
    IN  IF Len(h) > LoopWindow THEN Tail(h) ELSE h

\* _LoopDetector.is_looping
is_looping(history) ==
    /\ Len(history) >= LoopThreshold
    /\ \A i \in (Len(history) - LoopThreshold + 1)..Len(history) :
           history[i] = history[Len(history)]

\* ToolExecutor.execute_tool_call followed by to_tool_message: whether the
\* ToolMessage handed back reports success, for a tool name and the outcome
\* of the underlying operation.  An unknown name never reaches a tool.
ToolSucceeds(name, outcome) ==
    /\ name \in ToolNames
    /\ outcome \in {"ok", "error_dict"}

\* The text of the ToolMessage starts with "Error": failure results and
\* result dicts with an "error" key (_format_result).
ResultIsError(name, outcome) ==
    \/ ~ToolSucceeds(name, outcome)
    \/ outcome = "error_dict"

\* execute_tool_call: the result of one dispatch.  An unknown name returns
\* a failure before the tool table is used; a known tool gives its result,
\* or the failure of the TimeoutError or Exception clause.
\* error: "unknown" (Unknown tool: ...), "timed_out" (Tool execution timed
\* out after Ns), "raised" (Type: text) or "" for a success.
execute_tool_call(name, outcome) ==
    IF name \notin ToolNames
    THEN [tool_name |-> name, success |-> FALSE, error |-> "unknown"]
    ELSE IF outcome = "timeout"
    THEN [tool_name |-> name, success |-> FALSE, error |-> "timed_out"]
    ELSE IF outcome = "exception"
    THEN [tool_name |-> name, success |-> FALSE, error |-> "raised"]
    ELSE [tool_name |-> name, success |-> TRUE, error |-> ""]

\* ToolExecutor.get_tools_used
get_tools_used(history) == {history[i].tool_name : i \in DOMAIN history}

\* ToolExecutor.get_execution_summary
get_execution_summary(history) ==
    [total_calls |-> Len(history),
     successful  |-> Cardinality({i \in DOMAIN history : history[i].success}),
     failed      |-> Cardinality({i \in DOMAIN history : ~history[i].success}),
     tools_used  |-> get_tools_used(history)]

\* AgentResponse, by the members the result of a failed request sets;
\* tools_used is empty and tool_calls_count 0 unless given.
AgentResponse(success, tools_used, tool_calls_count) ==
    [given |-> TRUE, success |-> success, tools_used |-> tools_used,
     tool_calls_count |-> tool_calls_count]

NoAgentResponse == [given |-> FALSE]

\* The except clause of _agentic_loop: the partial result when the
\* executor has recorded calls, the plain failure otherwise.
partial_result(history) ==
    LET summary == get_execution_summary(history)
    IN  IF summary.total_calls > 0
        THEN AgentResponse(FALSE, summary.tools_used, summary.total_calls)
        ELSE AgentResponse(FALSE, {}, 0)

\* asyncio.wait_for raises TimeoutError: the tool exists and its operation
\* does not finish within timeout_seconds.
WaitForTimesOut(name, outcome) == name \in ToolNames /\ outcome = "timeout"

\* to_tool_message: the kind of ToolMessage appended to the conversation.
\* A failure gives "Error executing <tool>: <error>"; the message of a
\* timeout is the one that names the timeout.
to_tool_message(result) ==
    IF result.error = "timed_out" THEN "tool_timeout" ELSE "tool"

\* _generate_observation returns a text (not None)
HasObservation(name, outcome) ==
    IF ResultIsError(name, outcome) THEN TRUE
    ELSE name \in {"create_file", "modify_file", "delete_file", "list_files"}

\* file_modifying_tools of _agentic_loop_stream
FileModifyingTools ==
    {"create_file", "delete_file", "modify_file", "move_file", "rename_file"}

----------------------------------------------------------------------------
(* Events of the stream and what the consumer observes of them *)

EventTypes ==
    {"classification", "iteration", "iteration_warning", "message",
     "tool_start", "tool_complete", "file_tree_updated", "token",
     "done", "error"}

TerminalTypes == {"done", "error"}

\* An event: its type and the payload fields the properties read.  iter is
\* the value of the loop's iteration counter when the event was yielded.
Ev(type, iter) ==
    [type |-> type, tool |-> "", iter |-> iter,
     provider |-> "", model |-> "", flag |-> ""]

ToolEv(type, iter, tool) == [Ev(type, iter) EXCEPT !.tool = tool]

DoneEv(iter, provider, model, flag) ==
    [Ev("done", iter) EXCEPT !.provider = provider, !.model = model, !.flag = flag]

NoEvent == Ev("none", 0)

\* The monitor of one request's stream.
InitMon ==
    [ first         |-> "none",   \* type of the first event
      last          |-> "none",   \* type of the latest event
      terminals     |-> 0,        \* done / error events seen (2: two or more)
      afterTerminal |-> FALSE,    \* an event followed a terminal event
      final         |-> NoEvent,  \* the latest terminal event
      open          |-> "",       \* tool of the tool_start not yet completed
      starts        |-> 0,        \* tool_start events
      completes     |-> 0,        \* tool_complete events
      badStart      |-> FALSE,    \* a tool_start while another was open
      badComplete   |-> FALSE,    \* a tool_complete that matches no open tool_start
      lastIter      |-> 0,        \* "current" of the latest iteration event
      startNoIter   |-> FALSE,    \* a tool_start not preceded by its iteration event
      iterWhileOpen |-> FALSE,    \* an iteration event while a tool was open
      warnings      |-> 0 ]       \* iteration_warning events seen (2: two or more)

Observe(m, e) ==
    [ first         |-> IF m.first = "none" THEN e.type ELSE m.first,
      last          |-> e.type,
      terminals     |-> IF e.type \in TerminalTypes
                        THEN Min(m.terminals + 1, 2) ELSE m.terminals,
      afterTerminal |-> m.afterTerminal \/ m.terminals > 0,
      final         |-> IF e.type \in TerminalTypes THEN e ELSE m.final,
      open          |-> IF e.type = "tool_start" THEN e.tool
                        ELSE IF e.type = "tool_complete" THEN ""
                        ELSE m.open,
      starts        |-> IF e.type = "tool_start" THEN m.starts + 1 ELSE m.starts,
      completes     |-> IF e.type = "tool_complete" THEN m.completes + 1
                        ELSE m.completes,
      badStart      |-> m.badStart \/ (e.type = "tool_start" /\ m.starts /= m.completes),
      badComplete   |-> m.badComplete
                        \/ (e.type = "tool_complete"
                            /\ (m.starts /= m.completes + 1 \/ m.open /= e.tool)),
      lastIter      |-> IF e.type = "iteration" THEN e.iter ELSE m.lastIter,
      startNoIter   |-> m.startNoIter
                        \/ (e.type = "tool_start" /\ m.lastIter /= e.iter),
      iterWhileOpen |-> m.iterWhileOpen
                        \/ (e.type = "iteration" /\ m.starts /= m.completes),
      warnings      |-> IF e.type = "iteration_warning"
                        THEN Min(m.warnings + 1, 2) ELSE m.warnings ]

RECURSIVE ObserveAll(_, _)
ObserveAll(m, es) ==
    IF es = << >> THEN m ELSE ObserveAll(Observe(m, Head(es)), Tail(es))

----------------------------------------------------------------------------
(* Initial state *)

\* The locals of a request coroutine before the request starts.
IdleRequest ==
    [ pc           |-> "idle",
      kind         |-> "none",      \* "stream" (process_stream) or "sync" (process)
      task         |-> "code_generation",
      selected     |-> Auto,        \* selected_model of the request
      simple_sel   |-> Auto,        \* selected_model handed to _simple_stream / _simple_invoke
      provider     |-> "",          \* the local variable provider (the label reported)
      model_name   |-> "",          \* the local variable model_name
      use_fallback |-> FALSE,
      handle       |-> NoModel,     \* model_with_tools
      iteration    |-> 0,
      level        |-> 0,           \* fallback_level of invoke_with_fallback
      toolq        |-> << >>,     \* tool calls of the response still to process
      askedIter    |-> 0,           \* iteration whose response carried toolq
      history      |-> << >>,       \* loop_detector.history
      outcome      |-> "none",      \* what the latest model invocation did
      invoked      |-> {},          \* providers whose model was invoked for the answer
      last_msg     |-> "human",     \* kind of current_messages[-1]
      prev_summary |-> FALSE,       \* current_messages[-2] is a summary demand
      summaries    |-> 0,           \* summary demands appended (2: two or more)
      timed_out    |-> FALSE,       \* wait_for of the latest dispatch timed out
      response     |-> NoEvent ]    \* AgentResponse of a non-streaming request

NoRotation == [provider |-> "", result |-> "none"]

\* The classes of every provider implement bind_tools, or those of one
\* provider do not.
BindableChoices == {Providers} \cup {Providers \ {p} : p \in Providers}

\* The store after CredentialManager.__init__: every remote provider has
\* the keys found in its NumKeySlots environment slots, all active, the
\* cursor on the first; ollama has its one placeholder credential.
InitStore ==
    /\ \E nc \in 0..NumKeySlots, ng \in 0..NumKeySlots :
          creds = [ cerebras |-> [i \in 1..nc |-> TRUE],
                    groq     |-> [i \in 1..ng |-> TRUE],
                    ollama   |-> <<TRUE>> ]
    /\ cursor = [p \in Providers |-> 0]
    /\ rot = NoRotation

\* --- File tools: tools/file_tools.py (quasar-cli) ---

\* A location of the filesystem is the sequence of the names from the root;
\* the workspace is the directory /ws.  /ws/lnk is a symbolic link to the
\* directory /etc outside the workspace.
Workspace == <<"ws">>
SymlinkAt == <<"ws", "lnk">>
SymlinkTo == <<"etc">>

\* A path argument as the model of a tool call writes it: absolute or
\* relative, and its components.
RelPath(parts) == [abs |-> FALSE, parts |-> parts]
AbsPath(parts) == [abs |-> TRUE, parts |-> parts]

\* The path arguments tried: "f", "d/g", "new", ".", "/ws/f" inside the
\* workspace; "../etc/p", "d/../f" and "a..b" with two dots in them;
\* "/etc/p" and "lnk/p" that lead outside without them.
ToolPaths ==
    { RelPath(<<"f">>), RelPath(<<"d", "g">>), RelPath(<<"new">>),
      RelPath(<<".">>), AbsPath(<<"ws", "f">>),
      RelPath(<<"..", "etc", "p">>), RelPath(<<"d", "..", "f">>),
      RelPath(<<"a..b">>),
      AbsPath(<<"etc", "p">>), RelPath(<<"lnk", "p">>) }

\* ".." in path, a test on the text of the argument
HasDotDot(path) ==
    \E i \in DOMAIN path.parts : path.parts[i] \in {"..", "a..b"}

\* Path.resolve(): "." is dropped, ".." goes to the parent, a symbolic link
\* is replaced by its target.
RECURSIVE ResolveFrom(_, _)
ResolveFrom(cur, parts) ==
    IF parts = << >> THEN cur
    ELSE LET c == Head(parts)
             nxt == Append(cur, c)
         IN  IF c = "." THEN ResolveFrom(cur, Tail(parts))
             ELSE IF c = ".."
             THEN ResolveFrom(IF cur = << >> THEN cur
                              ELSE SubSeq(cur, 1, Len(cur) - 1), Tail(parts))
             ELSE ResolveFrom(IF nxt = SymlinkAt THEN SymlinkTo ELSE nxt,
                              Tail(parts))

\* full_path.relative_to(workspace) does not raise
IsRelativeTo(loc, base) ==
    /\ Len(loc) >= Len(base)
    /\ SubSeq(loc, 1, Len(base)) = base

\* validate_path(path): (is_valid, error, full_path)
validate_path(path) ==
    IF HasDotDot(path)
    THEN [is_valid |-> FALSE, error |-> "traversal", full_path |-> << >>]
    ELSE LET full_path == ResolveFrom(IF path.abs THEN << >> ELSE Workspace,
                                      path.parts)
         IN  IF IsRelativeTo(full_path, Workspace)
             THEN [is_valid |-> TRUE, error |-> "", full_path |-> full_path]
             ELSE [is_valid |-> FALSE, error |-> "outside", full_path |-> << >>]

\* Path.exists() and Path.is_dir() on the files of the model: a directory
\* exists as long as a file lies below it, the workspace always.
IsDir(files, loc) ==
    \/ loc = Workspace
    \/ \E f \in files : Len(f) > Len(loc) /\ IsRelativeTo(f, loc)

PathExists(files, loc) == loc \in files \/ IsDir(files, loc)

\* One filesystem operation of a tool: what it does and where.
Io(op, loc) == [op |-> op, loc |-> loc]

\* The files at the start and no file-tool call yet.
InitSandbox ==
    [ files   |-> { <<"ws", "f">>, <<"ws", "d", "g">>, <<"etc", "p">> },
      tool    |-> "none",
      args    |-> << >>,
      verdict |-> "none",     \* "rejected", "failed" or "done"
      io      |-> {} ]        \* the operations the latest call performed

\* --- Request-scoped user keys: models/credentials.py ---

\* The requests in flight at one time, each in its own context.
Requests == {"r1", "r2"}

\* The provider the user keys are given for; the other providers of a
\* request are served by the process-wide store.
UserProvider == "groq"

\* user_credentials_context.get(provider) of a context: the
\* ProviderCredentials built by set_user_keys with the request that gave the
\* keys, or none (no key: the provider is not in the dict).
NoOverride == [owner |-> "none", keys |-> << >>, idx |-> 0]

\* The values of the two ContextVars in a context where neither was set.
EmptyContext == [creds |-> NoOverride, settings |-> "none"]

NoOperation == [req |-> "none", op |-> "none", result |-> "none",
                owner |-> "none", scope |-> "none"]

InitUsers ==
    [ ctx  |-> [r \in Requests |-> EmptyContext],
      live |-> {},
      last |-> NoOperation ]

\* set_user_keys(provider_keys, settings) in the context of request r: n is
\* the number of non-empty keys given for UserProvider; without one the
\* provider gets no entry.
set_user_keys(r, n, with_settings) ==
    [ creds    |-> IF n > 0
                   THEN [owner |-> r, keys |-> [i \in 1..n |-> TRUE], idx |-> 0]
                   ELSE NoOverride,
      settings |-> IF with_settings THEN r ELSE "none" ]

\* A faulty lookup, kept to show what C16 rules out: the user keys are held
\* in one variable of the process, so that any request finds the keys that
\* some request has set.
user_credentials_context_Shared(r) ==
    IF \E q \in Requests : usr.ctx[q].creds /= NoOverride
    THEN usr.ctx[CHOOSE q \in Requests : usr.ctx[q].creds /= NoOverride].creds
    ELSE NoOverride

\* user_credentials_context.get() evaluated in the context of request r
user_credentials_context(r) == usr.ctx[r].creds

\* user_settings_context.get() evaluated in the context of request r
user_settings_context(r) == usr.ctx[r].settings

\* _get_provider_creds(provider) called by request r: the user's entry when
\* the context has one for the provider, the process-wide entry otherwise.
_get_provider_creds(r, p) ==
    LET user_creds == user_credentials_context(r)
    IN  IF p = UserProvider /\ user_creds /= NoOverride
        THEN [scope |-> "user", owner |-> user_creds.owner,
              keys |-> user_creds.keys, idx |-> user_creds.idx]
        ELSE [scope |-> "process", owner |-> "env",
              keys |-> creds[p], idx |-> cursor[p]]

\* --- Conversation context: context/manager.py ---

\* The messages given to add_message, by what _trigger_summarization reads
\* of them: the role, whether a task type came with it and which of its key
\* words the first 200 characters hold.
UserRequest == [role |-> "user", task_type |-> TRUE, says |-> "implement"]
UserOther == [role |-> "user", task_type |-> TRUE, says |-> "other"]
AssistantPhaseDone == [role |-> "assistant", task_type |-> TRUE, says |-> "phase complete"]
ContextMessages == {UserRequest, UserOther, AssistantPhaseDone}

NoSummary == [present |-> FALSE, user_count |-> 0, parts |-> 0]
NoContextBuilt ==
    [type |-> "none", permanent |-> 0, task |-> 0, summary |-> 0,
     session |-> 0, token_budget |-> 0]

\* ContextManager.__init__; task_tokens is the size of the texts held by
\* the task context, files_created whether a file was recorded, op the
\* latest call and context what it returned: the sizes of the strings of
\* get_context_for_task, nothing for the other calls.
NewContext ==
    [ history       |-> << >>,
      summary       |-> NoSummary,
      task_tokens   |-> 0,
      files_created |-> FALSE,
      op            |-> "none",
      context       |-> NoContextBuilt ]

\* The parts the messages of old_messages add to summary_parts, and the
\* messages of role user among them.
RECURSIVE SummaryParts(_)
SummaryParts(msgs) ==
    IF msgs = << >> THEN 0
    ELSE LET msg == Head(msgs)
             one == IF msg.says = "phase complete" THEN 1
                    ELSE IF msg.role = "user" /\ msg.task_type
                            /\ msg.says \in {"implement", "fix", "explain"}
                    THEN 1 ELSE 0
         IN  one + SummaryParts(Tail(msgs))

RECURSIVE UserCount(_)
UserCount(msgs) ==
    IF msgs = << >> THEN 0
    ELSE (IF Head(msgs).role = "user" THEN 1 ELSE 0) + UserCount(Tail(msgs))

\* conversation_history[-n:]
LastMessages(h, n) == IF Len(h) <= n THEN h ELSE SubSeq(h, Len(h) - n + 1, Len(h))

\* conversation_history[:-n]
AllButLast(h, n) == IF Len(h) <= n THEN << >> ELSE SubSeq(h, 1, Len(h) - n)

\* A faulty summarization, kept to show what C17 rules out: the summary is
\* written but the history keeps its oldest messages instead of its latest.
_trigger_summarization_KeepsOldest(c) ==
    LET old_messages == AllButLast(c.history, summarize_threshold)
    IN  IF old_messages = << >> THEN c
        ELSE [c EXCEPT
                !.summary = [present |-> TRUE,
                             user_count |-> UserCount(old_messages),
                             parts |-> Min(SummaryParts(old_messages)
                                           + (IF c.files_created THEN 1 ELSE 0), 5)],
                !.history = SubSeq(c.history, 1, summarize_threshold)]

\* ContextManager._trigger_summarization
_trigger_summarization(c) ==
    LET old_messages == AllButLast(c.history, summarize_threshold)
        summary_parts == SummaryParts(old_messages)
                         + (IF c.files_created THEN 1 ELSE 0)
    IN  IF old_messages = << >> THEN c
        ELSE [c EXCEPT
                !.summary = [present |-> TRUE,
                             user_count |-> UserCount(old_messages),
                             parts |-> Min(summary_parts, 5)],
                !.history = LastMessages(c.history, summarize_threshold)]

\* ContextManager.add_message
add_message(c, msg) ==
    LET appended == [c EXCEPT !.history = Append(@, msg)]
    IN  IF Len(appended.history) >= summarize_threshold * 2
        THEN _trigger_summarization(appended)
        ELSE appended

\* TOKEN_BUDGETS, the rows of three task types
TOKEN_BUDGETS ==
    [ chat |-> [permanent |-> 100, task |-> 200, summary |-> 100, total |-> 400],
      code_generation |->
              [permanent |-> 100, task |-> 1500, summary |-> 300, total |-> 1900],
      code_generation_multi |->
              [permanent |-> 100, task |-> 3000, summary |-> 500, total |-> 3600] ]

\* TOKEN_BUDGETS.get(task_type, TOKEN_BUDGETS["chat"])
BudgetFor(task_type) ==
    IF task_type \in DOMAIN TOKEN_BUDGETS
    THEN TOKEN_BUDGETS[task_type] ELSE TOKEN_BUDGETS["chat"]

\* The sizes, in tokens, of the strings the _build_*_context methods
\* return.  None of them reads its token_limit: the permanent lines, the
\* task texts as they were given, the summary with its parts, the files.
_build_permanent_context(c, token_limit) == 10
_build_task_context(c, token_limit) == c.task_tokens
_build_summary_context(c, token_limit) ==
    IF c.summary.present THEN 10 + 8 * c.summary.parts ELSE 0
_build_session_context(c) == IF c.files_created THEN 5 ELSE 0

\* ContextManager.get_context_for_task
get_context_for_task(c, task_type) ==
    LET budget == BudgetFor(task_type)
    IN  [ type         |-> task_type,
          permanent    |-> _build_permanent_context(c, budget.permanent),
          task         |-> _build_task_context(c, budget.task),
          summary      |-> _build_summary_context(c, budget.summary),
          session      |-> _build_session_context(c),
          token_budget |-> budget.total ]

\* --- Tool operations and the executor's timeout: tools/executor.py ---

\* How a tool is run: a tool defined with def runs on a thread of the
\* default executor (loop.run_in_executor), a tool defined with async def
\* as a coroutine of the request's task (tool.ainvoke).
SyncTool == "sync"
AsyncTool == "async"
ToolKinds == {SyncTool, AsyncTool}

\* One request before its first model invocation.  live holds the
\* operations whose code is still running, kind how each was started,
\* timed_out the ones the executor returned a timeout result for, late
\* the ones that changed the workspace after that result was returned.
NewRun ==
    [ pc        |-> "model",
      queue     |-> 0,
      started   |-> 0,
      current   |-> 0,
      kind      |-> << >>,
      live      |-> {},
      timed_out |-> {},
      late      |-> {} ]

\* asyncio.wait_for raising TimeoutError: the awaited future is cancelled.
\* Cancelling stops a coroutine at its await; the future run_in_executor
\* returned is cancelled as well, but the thread behind it runs on to the
\* end of tool.invoke.
CancelOnTimeout(r) ==
    IF r.kind[r.current] = AsyncTool THEN r.live \ {r.current} ELSE r.live

\* --- Tool results as text for the model: ToolExecutionResult ---

\* _format_result of quasar-cli/.../tools/executor.py
MAX_FILE_CONTENT_CHARS == 30000
MAX_OTHER_RESULT_CHARS == 10000

\* The length _format_result of backend/.../tools/executor.py cuts at.
BackendResultChars == 5000

\* The two executors of the repository.
CliExecutor == "quasar-cli"
BackendExecutor == "backend"

\* Result values by what _format_result tests of them: None, a dict with
\* an "error" key, with a "content" key, with is_large_file set, any other
\* dict (one json.dumps renders and one it raises on), a str, anything
\* else.  A value comes with the length of the text it holds: the error
\* text, the content, its JSON or its str().
ResultKinds ==
    {"none", "error_dict", "content_dict", "large_file_dict", "dict",
     "unserialisable_dict", "str", "other"}
ResultSizes ==
    {0, 1, BackendResultChars, BackendResultChars + 1,
     MAX_OTHER_RESULT_CHARS, MAX_OTHER_RESULT_CHARS + 1,
     MAX_FILE_CONTENT_CHARS, MAX_FILE_CONTENT_CHARS + 1}

\* The text made of a result: how many characters of the result it holds
\* and the note it ends with ("" when it has none).
ResultText(chars, note) == [chars |-> chars, note |-> note]

\* text[:limit], with the note when something was cut
CutAt(size, limit, note) ==
    IF size > limit THEN ResultText(limit, note) ELSE ResultText(size, "")

\* ToolExecutionResult._format_result, quasar-cli
_format_result_cli(kind, size) ==
    CASE kind = "none"            -> ResultText(0, "")
      [] kind = "error_dict"      -> ResultText(size, "")
      [] kind = "content_dict"    -> CutAt(size, MAX_FILE_CONTENT_CHARS, "[TRUNCATED]")
      [] kind = "large_file_dict" -> ResultText(size, "")
      [] kind = "dict"            -> CutAt(size, MAX_OTHER_RESULT_CHARS,
                                           "[TRUNCATED - result too long]")
      [] kind = "unserialisable_dict" ->
                                     ResultText(Min(size, MAX_OTHER_RESULT_CHARS), "")
      [] OTHER                    -> CutAt(size, MAX_OTHER_RESULT_CHARS, "[TRUNCATED]")

\* ToolExecutionResult._format_result, backend
_format_result_backend(kind, size) ==
    CASE kind = "none"            -> ResultText(0, "")
      [] kind \in {"content_dict", "str"} ->
                                     CutAt(size, BackendResultChars,
                                           "[Truncated: N chars total]")
      [] OTHER                    -> ResultText(size, "")

_format_result(impl, kind, size) ==
    IF impl = CliExecutor THEN _format_result_cli(kind, size)
    ELSE _format_result_backend(kind, size)

NoFormat == [given |-> FALSE]
\* --- File content tools on one path: tools/file_tools.py ---

\* Texts are sequences of characters: two letters, the line feed "\n" and
\* the carriage return "\r".
LF == "LF"
CR == "CR"
Chars == {"a", "b", LF, CR}

\* The texts of at most n characters.
Texts(n) == UNION {[1..k -> Chars] : k \in 0..n}

\* The path of the tools' calls: nothing there, a file with its bytes, or
\* a directory.
Absent == [kind |-> "absent", bytes |-> << >>]
FileOf(bytes) == [kind |-> "file", bytes |-> bytes]
Directory == [kind |-> "dir", bytes |-> << >>]

\* open(..., "r", newline=None), which Path.read_text uses: "\r\n" and a
\* lone "\r" are read as "\n".
RECURSIVE universal_newlines(_)
universal_newlines(bytes) ==
    IF bytes = << >> THEN << >>
    ELSE IF Head(bytes) = CR
    THEN IF Len(bytes) >= 2 /\ bytes[2] = LF
         THEN <<LF>> \o universal_newlines(Tail(Tail(bytes)))
         ELSE <<LF>> \o universal_newlines(Tail(bytes))
    ELSE <<Head(bytes)>> \o universal_newlines(Tail(bytes))

\* Path.read_text(encoding="utf-8")
read_text(node) == universal_newlines(node.bytes)

\* A faulty read_text, kept to show what the content claims rest on: the
\* bytes are returned up to their last character.
read_text_Short(node) ==
    IF node.bytes = << >> THEN << >>
    ELSE universal_newlines(SubSeq(node.bytes, 1, Len(node.bytes) - 1))

\* text.split("\n"): the lines of a text, one more than its line feeds.
RECURSIVE split_lines(_)
split_lines(text) ==
    IF \A i \in 1..Len(text) : text[i] /= LF THEN <<text>>
    ELSE LET i == CHOOSE j \in 1..Len(text) :
                     text[j] = LF /\ \A h \in 1..(j - 1) : text[h] /= LF
         IN  <<SubSeq(text, 1, i - 1)>>
               \o split_lines(SubSeq(text, i + 1, Len(text)))

\* "\n".join(lines)
RECURSIVE join_lines(_)
join_lines(lines) ==
    IF lines = << >> THEN << >>
    ELSE IF Len(lines) = 1 THEN lines[1]
    ELSE lines[1] \o <<LF>> \o join_lines(Tail(lines))

\* text starts with x at index i (1-based)
MatchesAt(text, x, i) ==
    /\ i + Len(x) - 1 <= Len(text)
    /\ \A h \in 1..Len(x) : text[i + h - 1] = x[h]

\* text.find(x, start): the 0-based index of the first occurrence of x at
\* or after start, -1 when there is none.
str_find(text, x, start) ==
    LET hits == {i \in (start + 1)..(Len(text) + 1) : MatchesAt(text, x, i)}
    IN  IF hits = {} THEN -1
        ELSE (CHOOSE i \in hits : \A j \in hits : i <= j) - 1

\* text.count(x): occurrences that do not overlap; the empty text occurs
\* before every character and at the end.
RECURSIVE CountFrom(_, _, _)
CountFrom(text, x, start) ==
    LET idx == str_find(text, x, start)
    IN  IF idx = -1 \/ (x = << >> /\ start > Len(text)) THEN 0
        ELSE 1 + CountFrom(text, x, idx + (IF x = << >> THEN 1 ELSE Len(x)))
str_count(text, x) == CountFrom(text, x, 0)

\* text.replace(x, y)
RECURSIVE str_replace(_, _, _)
str_replace(text, x, y) ==
    IF x = << >>
    THEN IF text = << >> THEN y
         ELSE y \o <<Head(text)>> \o str_replace(Tail(text), x, y)
    ELSE LET idx == str_find(text, x, 0)
         IN  IF idx = -1 THEN text
             ELSE SubSeq(text, 1, idx) \o y
                    \o str_replace(SubSeq(text, idx + Len(x) + 1, Len(text)), x, y)

\* The results of the content tools, with the fields the tools return: an
\* error ("" for none), and by tool the content, the counts and the flags.
Failure(error, hint) == [error |-> error, hint |-> hint, has_content |-> FALSE]

\* A faulty read_file, kept to show what C28 rules out: a file of exactly
\* MAX_LINES lines is taken for a large one.
read_file_OffByOne(node) ==
    IF node.kind = "absent" THEN Failure("File not found", FALSE)
    ELSE IF node.kind /= "file" THEN Failure("Not a file", FALSE)
    ELSE LET content == read_text(node)
             line_count == Len(split_lines(content))
         IN  IF line_count >= MAX_LINES
             THEN [error |-> "", hint |-> TRUE, has_content |-> FALSE,
                   is_large_file |-> TRUE, lines |-> line_count,
                   size_bytes |-> Len(content)]
             ELSE [error |-> "", hint |-> FALSE, has_content |-> TRUE,
                   content |-> content, is_large_file |-> FALSE,
                   lines |-> line_count, size_bytes |-> Len(content)]

\* read_file(path)
read_file(node) ==
    IF node.kind = "absent" THEN Failure("File not found", FALSE)
    ELSE IF node.kind /= "file" THEN Failure("Not a file", FALSE)
    ELSE LET content == read_text(node)
             line_count == Len(split_lines(content))
         IN  IF line_count > MAX_LINES
             THEN [error |-> "", hint |-> TRUE, has_content |-> FALSE,
                   is_large_file |-> TRUE, lines |-> line_count,
                   size_bytes |-> Len(content)]
             ELSE [error |-> "", hint |-> FALSE, has_content |-> TRUE,
                   content |-> content, is_large_file |-> FALSE,
                   lines |-> line_count, size_bytes |-> Len(content)]

\* A faulty read_file_chunk, kept to show what C27 rules out: the slice
\* starts one line late.
read_file_chunk_SkipsLine(node, start_line, end_line) ==
    IF node.kind = "absent" THEN Failure("File not found", FALSE)
    ELSE IF node.kind /= "file" THEN Failure("Not a file", FALSE)
    ELSE LET lines == split_lines(read_text(node))
             total_lines == Len(lines)
             first == IF start_line < 1 THEN 1 ELSE start_line
             last == IF end_line > total_lines THEN total_lines ELSE end_line
         IN  IF first > last THEN Failure("Invalid range", FALSE)
             ELSE LET chunk_lines == SubSeq(lines, first + 1, last)
                  IN  [error |-> "", hint |-> FALSE, has_content |-> TRUE,
                       content |-> join_lines(chunk_lines),
                       start_line |-> first, end_line |-> last,
                       lines_in_chunk |-> Len(chunk_lines),
                       total_lines |-> total_lines,
                       has_more_before |-> first > 1,
                       has_more_after |-> last < total_lines]

\* read_file_chunk(path, start_line, end_line)
read_file_chunk(node, start_line, end_line) ==
    IF node.kind = "absent" THEN Failure("File not found", FALSE)
    ELSE IF node.kind /= "file" THEN Failure("Not a file", FALSE)
    ELSE LET lines == split_lines(read_text(node))
             total_lines == Len(lines)
             first == IF start_line < 1 THEN 1 ELSE start_line
             last == IF end_line > total_lines THEN total_lines ELSE end_line
         IN  IF first > last THEN Failure("Invalid range", FALSE)
             ELSE LET chunk_lines == SubSeq(lines, first, last)
                  IN  [error |-> "", hint |-> FALSE, has_content |-> TRUE,
                       content |-> join_lines(chunk_lines),
                       start_line |-> first, end_line |-> last,
                       lines_in_chunk |-> Len(chunk_lines),
                       total_lines |-> total_lines,
                       has_more_before |-> first > 1,
                       has_more_after |-> last < total_lines]

\* What a writing tool leaves: the node and the result.
Outcome(node, result) == [node |-> node, result |-> result]

Written(content) ==
    [error |-> "", hint |-> FALSE, has_content |-> FALSE,
     lines |-> Len(split_lines(content)), size_bytes |-> Len(content)]

\* A faulty create_file, kept to show what C23 rules out: the file is
\* written whether it exists or not.
create_file_Clobbers(node, content, overwrite) ==
    IF node.kind = "dir"
    THEN Outcome(node, Failure("Failed to create file", FALSE))
    ELSE Outcome(FileOf(content), Written(content))

\* create_file(path, content, overwrite); writing to a directory raises.
create_file(node, content, overwrite) ==
    IF node.kind /= "absent" /\ ~overwrite
    THEN Outcome(node, Failure("File already exists", TRUE))
    ELSE IF node.kind = "dir"
    THEN Outcome(node, Failure("Failed to create file", FALSE))
    ELSE Outcome(FileOf(content), Written(content))

\* A faulty patch_file, kept to show what C25 rules out: the text found is
\* removed and the replacement is put at the end of the file.
patch_file_Appends(node, find_text, replace_text, occurrence) ==
    IF node.kind /= "file" THEN Outcome(node, Failure("File not found", FALSE))
    ELSE LET content == read_text(node)
             idx == str_find(content, find_text, 0)
         IN  IF idx = -1 THEN Outcome(node, Failure("Text not found in file", TRUE))
             ELSE Outcome(FileOf(SubSeq(content, 1, idx)
                                   \o SubSeq(content, idx + Len(find_text) + 1,
                                             Len(content))
                                   \o replace_text),
                          [error |-> "", hint |-> FALSE, has_content |-> FALSE,
                           replacements |-> 1, occurrences_found |-> 1])

\* content.find(find_text, idx + 1), occurrence times, from idx = -1
RECURSIVE NthIndex(_, _, _, _)
NthIndex(content, find_text, idx, times) ==
    IF times = 0 THEN idx
    ELSE NthIndex(content, find_text, str_find(content, find_text, idx + 1), times - 1)

\* patch_file(path, find_text, replace_text, occurrence); reading a
\* directory raises.
patch_file(node, find_text, replace_text, occurrence) ==
    IF node.kind = "absent" THEN Outcome(node, Failure("File not found", FALSE))
    ELSE IF node.kind = "dir" THEN Outcome(node, Failure("Failed to patch file", FALSE))
    ELSE LET content == read_text(node)
             count == str_count(content, find_text)
         IN  IF str_find(content, find_text, 0) = -1
             THEN Outcome(node, Failure("Text not found in file", TRUE))
             ELSE IF occurrence = 0
             THEN Outcome(FileOf(str_replace(content, find_text, replace_text)),
                          [error |-> "", hint |-> FALSE, has_content |-> FALSE,
                           replacements |-> count, occurrences_found |-> count])
             ELSE IF occurrence > count
             THEN Outcome(node, Failure("Only count occurrence(s) found", FALSE))
             ELSE LET idx == NthIndex(content, find_text, -1, occurrence)
                  IN  Outcome(FileOf(SubSeq(content, 1, idx) \o replace_text
                                       \o SubSeq(content, idx + Len(find_text) + 1,
                                                 Len(content))),
                              [error |-> "", hint |-> FALSE, has_content |-> FALSE,
                               replacements |-> 1, occurrences_found |-> count])

\* No call yet.
NoCall == [tool |-> "none"]

\* The path before anything is known of it; then what was found there
\* (origin), what is there now (node) and the two latest calls with what
\* they found and returned.
NewDoc == [given |-> FALSE]
\* --- move_file on a small workspace tree: tools/file_tools.py ---

\* The paths of the tree, relative to the workspace: two names, one level
\* of nesting.  At a path there is nothing, a directory, or a file with one
\* of two contents.
TreeNames == {"a", "b"}
TreePaths == {<<n>> : n \in TreeNames} \cup (TreeNames \X TreeNames)
TreeValues == {"none", "dir", "x", "y"}

IsPrefix(p, q) == Len(p) <= Len(q) /\ SubSeq(q, 1, Len(p)) = p
ParentOf(p) == SubSeq(p, 1, Len(p) - 1)

\* A tree the filesystem can hold: what lies below a path lies in a
\* directory.
WellFormed(t) ==
    \A p \in TreePaths :
       (Len(p) > 1 /\ t[p] /= "none") => t[ParentOf(p)] = "dir"
FoundTrees == {t \in [TreePaths -> TreeValues] : WellFormed(t)}

\* The paths at and below src, and where shutil.move puts them under dst.
Below(t, src) == {p \in TreePaths : IsPrefix(src, p) /\ t[p] /= "none"}
Rerooted(p, src, dst) == dst \o SubSeq(p, Len(src) + 1, Len(p))

\* dest_path.parent.mkdir(parents=True, exist_ok=True): the parent is made
\* a directory when nothing is there; a file there makes mkdir raise.
MkdirParent(t, dst) ==
    IF Len(dst) = 1 \/ t[ParentOf(dst)] /= "none" THEN t
    ELSE [t EXCEPT ![ParentOf(dst)] = "dir"]
ParentIsFile(t, dst) == Len(dst) > 1 /\ t[ParentOf(dst)] \in {"x", "y"}

\* os.rename(src, real_dst) of shutil.move, with what makes it and the copy
\* shutil.move falls back to raise: a directory moved onto a file or into
\* itself.
Renamed(t, src, real) ==
    [p \in TreePaths |->
        IF \E q \in Below(t, src) : Rerooted(q, src, real) = p
        THEN t[CHOOSE q \in Below(t, src) : Rerooted(q, src, real) = p]
        ELSE IF IsPrefix(src, p) THEN "none"
        ELSE t[p]]

MoveResult(t, error) == [tree |-> t, error |-> error]

\* shutil.move(str(source_path), str(dest_path))
shutil_move(t, src, dst) ==
    LET into == t[dst] = "dir" /\ src /= dst
        real == IF into THEN dst \o <<src[Len(src)]>> ELSE dst
    IN  IF into /\ real \in TreePaths /\ t[real] /= "none"
        THEN MoveResult(t, "Failed to move")
        ELSE IF src = real THEN MoveResult(t, "")
        ELSE IF t[src] = "dir" /\ (IsPrefix(src, real) \/ t[real] /= "none")
        THEN MoveResult(t, "Failed to move")
        ELSE MoveResult(Renamed(t, src, real), "")

\* Where the entries moved arrive lies within the paths of the model.
FitsTree(t, src, dst) ==
    LET real == IF t[dst] = "dir" /\ src /= dst
                THEN dst \o <<src[Len(src)]>> ELSE dst
    IN  \A q \in Below(t, src) : Rerooted(q, src, real) \in TreePaths

\* move_file(source, destination)
move_file(t, src, dst) ==
    IF t[src] = "none" THEN MoveResult(t, "Source not found")
    ELSE IF ParentIsFile(t, dst) THEN MoveResult(t, "Failed to move")
    ELSE shutil_move(MkdirParent(t, dst), src, dst)

NewTree == [given |-> FALSE]
\* --- list_files: tools/file_tools.py ---

\* What full_path.iterdir() or full_path.rglob("*") yields, by what
\* list_files tests of an item: is_file(), is_dir() (neither for a broken
\* link), and whether a part of its path is one of .git, __pycache__,
\* node_modules, .venv, venv.
ItemKinds == {"file", "dir", "other"}
Items == [kind : ItemKinds, ignored : BOOLEAN]

\* The directories of at most n items, in the order they are yielded.
Listings(n) == UNION {[1..k -> Items] : k \in 0..n}

NewListingResult ==
    [files |-> << >>, directories |-> << >>,
     files_truncated |-> FALSE, dirs_truncated |-> FALSE]

\* A faulty loop body, kept to show what C29 rules out: the flag is set as
\* soon as an entry fills the list.
ListItem_FlagsAtCap(acc, item, i, recursive) ==
    IF recursive /\ item.ignored THEN acc
    ELSE IF item.kind = "file"
    THEN IF Len(acc.files) < MAX_FILES
         THEN [acc EXCEPT !.files = Append(@, i),
                          !.files_truncated = Len(acc.files) + 1 = MAX_FILES]
         ELSE [acc EXCEPT !.files_truncated = TRUE]
    ELSE IF item.kind = "dir"
    THEN IF Len(acc.directories) < MAX_DIRS
         THEN [acc EXCEPT !.directories = Append(@, i)]
         ELSE [acc EXCEPT !.dirs_truncated = TRUE]
    ELSE acc

\* The body of the two loops of list_files; only the recursive one skips
\* the ignored directories.
ListItem(acc, item, i, recursive) ==
    IF recursive /\ item.ignored THEN acc
    ELSE IF item.kind = "file"
    THEN IF Len(acc.files) < MAX_FILES
         THEN [acc EXCEPT !.files = Append(@, i)]
         ELSE [acc EXCEPT !.files_truncated = TRUE]
    ELSE IF item.kind = "dir"
    THEN IF Len(acc.directories) < MAX_DIRS
         THEN [acc EXCEPT !.directories = Append(@, i)]
         ELSE [acc EXCEPT !.dirs_truncated = TRUE]
    ELSE acc

RECURSIVE ListLoop(_, _, _, _)
ListLoop(acc, items, i, recursive) ==
    IF i > Len(items) THEN acc
    ELSE ListLoop(ListItem(acc, items[i], i, recursive), items, i + 1, recursive)

\* list_files(path, recursive) of a directory; the files and directories
\* returned are named by their place among the items.
list_files(items, recursive) ==
    LET acc == ListLoop(NewListingResult, items, 1, recursive)
    IN  [files |-> acc.files,
         directories |-> acc.directories,
         total_files |-> Len(acc.files),
         total_directories |-> Len(acc.directories),
         truncated |-> acc.files_truncated \/ acc.dirs_truncated]

NoListing == [given |-> FALSE]
NoClassification == [given |-> FALSE]

NoQuery == [given |-> FALSE]

NewTerminal == [given |-> FALSE, buffer |-> << >>]

IdleConcurrent == [pc |-> "idle", provider |-> "none", cred |-> -1]

NewConcurrent == [req |-> [r \in {1, 2} |-> IdleConcurrent], signalled |-> {}]

IdleShared == [pc |-> "idle"]

NoSelection == [given |-> FALSE]

\* ContextManager.__init__: self.task = TaskContext(), every member None.
NewShared ==
    [task |-> [current_file |-> "None", selected_code |-> "None",
               error_message |-> "None", terminal_output |-> "None"],
     req |-> [r \in {1, 2} |-> IdleShared]]

\* _LoopDetector.__init__: an empty history; calls keeps the (up to three)
\* latest calls given to add_call, looping what is_looping returned last.
NewDetector == [history |-> << >>, calls |-> << >>, looping |-> FALSE]

\* ToolExecutor.__init__: an empty execution_history.  tool_starts counts
\* the calls the loop dispatched, tool_calls_count is what the terminal
\* event reported once done.
NewExecutor ==
    [execution_history |-> << >>, tool_starts |-> 0,
     done |-> FALSE, tool_calls_count |-> 0, response |-> NoAgentResponse]

\* The components beside the request path, untouched.
SideIdle ==
    /\ det = NewDetector
    /\ exe = NewExecutor
    /\ sbx = InitSandbox
    /\ usr = InitUsers
    /\ ctx = NewContext
    /\ run = NewRun
    /\ fmt = NoFormat
    /\ doc = NewDoc
    /\ tree = NewTree
    /\ lst = NoListing
    /\ cls = NoClassification
    /\ kwd = NoQuery
    /\ trm = NewTerminal
    /\ par = NewConcurrent
    /\ shr = NewShared
    /\ pick = NoSelection

Init ==
    /\ InitStore
    /\ bindable \in BindableChoices
    /\ req = IdleRequest
    /\ mon = InitMon
    /\ SideIdle

\* model.bind_tools(tools) returns: the handle exists (None has no
\* bind_tools attribute) and its class supports tool binding.
CanBind(model) == model /= NoModel /\ model.provider \in bindable

----------------------------------------------------------------------------
(* The streaming path: process_stream *)

\* AgentConfig.TOOL_ENABLED_TASKS lists every task type.
TOOL_ENABLED_TASKS == TaskTypes

_should_use_tools(task) == task \in TOOL_ENABLED_TASKS

\* process_stream up to the choice of the path: the classifier decides the
\* task type, the classification event is yielded.
StartStream ==
    /\ req.pc \in {"idle", "finished", "raised"}
    /\ \E task \in TaskTypes, sel \in SelectedModels :
          req' = [IdleRequest EXCEPT
                     !.pc = IF _should_use_tools(task) THEN "select" ELSE "simple",
                     !.kind = "stream",
                     !.task = task,
                     !.selected = sel,
                     !.simple_sel = sel]
    /\ mon' = Observe(InitMon, Ev("classification", 0))
    /\ rot' = NoRotation     \* no rotate_credential call of this request yet
    /\ UNCHANGED <<creds, cursor, bindable, sideVars>>

\* The model selection shared by _agentic_loop_stream (lines 1154-1171) and
\* _agentic_loop (lines 836-855): the handle and the labels.
SelectedHandle(cr, cu, task, sel) ==
    IF IsPinned(sel)
    THEN get_model_for_provider(cr, cu, sel[1], sel[2])
    ELSE router_get_model(cr, cu, task, 0)

SelectedProvider(task, sel) ==
    IF IsPinned(sel) THEN sel[1] ELSE get_models_for_task(task)[1][1]

SelectedModelName(task, sel) ==
    IF IsPinned(sel) THEN sel[2]
    ELSE ConfigModelName(get_models_for_task(task)[1][1],
                         get_models_for_task(task)[1][2])

\* _agentic_loop_stream up to the loop: select the model, bind the tools;
\* when binding raises, hand over to _simple_stream(messages, task_type).
SelectModelStream ==
    /\ req.pc = "select"
    /\ req.kind = "stream"
    /\ LET model == SelectedHandle(creds, cursor, req.task, req.selected)
       IN  req' = [req EXCEPT
                      !.provider = SelectedProvider(req.task, req.selected),
                      !.model_name = SelectedModelName(req.task, req.selected),
                      !.use_fallback = ~IsPinned(req.selected),
                      !.handle = IF CanBind(model) THEN model ELSE NoModel,
                      !.simple_sel = IF CanBind(model) THEN @ ELSE Auto,
                      !.pc = IF CanBind(model) THEN "loop" ELSE "simple"]
    /\ UNCHANGED <<creds, cursor, rot, bindable, mon, sideVars>>

\* current_messages.append(message): what the model keeps of the list is
\* the kind of its last element and whether the one before it is a summary
\* demand, that is, what the check on current_messages[-2:] reads.
AppendMessage(r, kind) ==
    [r EXCEPT !.prev_summary = (r.last_msg = "summary"),
              !.last_msg = kind,
              !.summaries = IF kind = "summary" THEN Min(@ + 1, 2) ELSE @]

\* any("[SYSTEM: CRITICAL RESOURCE LIMIT]" in m.content for m in
\* current_messages[-2:])
TailHasSummary(r) == r.last_msg = "summary" \/ r.prev_summary

\* Lines 1189-1210: count the iteration; with at most one iteration
\* remaining append the summary demand unless the tail of the list has one.
EnterIteration(r) ==
    LET counted == [r EXCEPT !.iteration = @ + 1, !.pc = "invoke"]
    IN  IF MAX_TOOL_ITERATIONS - counted.iteration <= 1 /\ ~TailHasSummary(r)
        THEN AppendMessage(counted, "summary")
        ELSE counted

\* A faulty loop top, kept to show what C10 rules out: the iteration is
\* counted but its iteration event is not yielded.
LoopTopStream_Silent ==
    /\ req.pc = "loop"
    /\ req.kind = "stream"
    /\ IF req.iteration < MAX_TOOL_ITERATIONS
       THEN /\ req' = EnterIteration(req)
            /\ mon' = mon
       ELSE /\ req' = [req EXCEPT !.pc = "finished"]
            /\ mon' = Observe(mon, DoneEv(req.iteration, req.provider,
                                          req.model_name, "max_iterations_reached"))
    /\ UNCHANGED <<creds, cursor, rot, bindable, sideVars>>

\* A faulty loop top, kept to show what C11 rules out: the loop condition
\* is iteration <= max_iterations, one turn too many.
LoopTopStream_OffByOne ==
    /\ req.pc = "loop"
    /\ req.kind = "stream"
    /\ IF req.iteration <= MAX_TOOL_ITERATIONS
       THEN LET it == req.iteration + 1
                remaining == MAX_TOOL_ITERATIONS - it
            IN  /\ req' = EnterIteration(req)
                /\ mon' = ObserveAll(mon,
                             <<Ev("iteration", it)>> \o
                             (IF remaining = 1
                              THEN <<Ev("iteration_warning", it)>> ELSE << >>))
       ELSE /\ req' = [req EXCEPT !.pc = "finished"]
            /\ mon' = Observe(mon, DoneEv(req.iteration, req.provider,
                                          req.model_name, "max_iterations_reached"))
    /\ UNCHANGED <<creds, cursor, rot, bindable, sideVars>>

\* Top of the while loop: count the iteration and yield the iteration event
\* (and the warning when one iteration remains), or leave the loop with
\* done(max_iterations_reached).
LoopTopStream ==
    /\ req.pc = "loop"
    /\ req.kind = "stream"
    /\ IF req.iteration < MAX_TOOL_ITERATIONS
       THEN LET it == req.iteration + 1
                remaining == MAX_TOOL_ITERATIONS - it
            IN  /\ req' = EnterIteration(req)
                /\ mon' = ObserveAll(mon,
                             <<Ev("iteration", it)>> \o
                             (IF remaining = 1
                              THEN <<Ev("iteration_warning", it)>> ELSE << >>))
       ELSE /\ req' = [req EXCEPT !.pc = "finished"]
            /\ mon' = Observe(mon, DoneEv(req.iteration, req.provider,
                                          req.model_name, "max_iterations_reached"))
    /\ UNCHANGED <<creds, cursor, rot, bindable, sideVars>>

\* The response has no tool calls: stream its text, yield done.
ModelAnswersStream ==
    /\ req.pc = "invoke"
    /\ req.kind = "stream"
    /\ req' = [req EXCEPT !.pc = "finished",
                          !.outcome = "final",
                          !.invoked = @ \cup {req.handle.provider}]
    /\ \E has_content \in BOOLEAN :
          mon' = ObserveAll(mon,
                    (IF has_content THEN <<Ev("token", req.iteration)>> ELSE << >>)
                    \o <<DoneEv(req.iteration, req.provider, req.model_name, "")>>)
    /\ UNCHANGED <<creds, cursor, rot, bindable, sideVars>>

\* The response carries tool calls: they are processed one by one.
ModelRequestsToolsStream ==
    /\ req.pc = "invoke"
    /\ req.kind = "stream"
    /\ \E calls \in ToolCallLists :
          req' = [AppendMessage(req, "ai") EXCEPT
                             !.timed_out = FALSE,
                             !.pc = "tools",
                             !.outcome = "tools",
                             !.invoked = @ \cup {req.handle.provider},
                             !.toolq = calls,
                             !.askedIter = req.iteration]
    /\ UNCHANGED <<creds, cursor, rot, bindable, mon, sideVars>>

\* ainvoke raises an error that is no rate-limit signal: yield error.
ModelFailsStream ==
    /\ req.pc = "invoke"
    /\ req.kind = "stream"
    /\ req' = [req EXCEPT !.pc = "finished",
                          !.outcome = "error",
                          !.invoked = @ \cup {req.handle.provider}]
    /\ mon' = Observe(mon, Ev("error", req.iteration))
    /\ UNCHANGED <<creds, cursor, rot, bindable, sideVars>>

\* STEP 2 of the rate-limit handler: the for loop over models_chain[1:].
\* idx is the 0-based fallback_idx; the result tells whether the loop left
\* by break, the handle bound then, the labels as the loop left them and
\* the number of message events it yielded.
RECURSIVE FallbackScan(_, _, _, _, _, _, _)
FallbackScan(cr, cu, task, idx, provider, model_name, msgs) ==
    LET models_chain == get_models_for_task(task)
    IN  IF idx >= Len(models_chain)
        THEN [found |-> FALSE, handle |-> NoModel, provider |-> provider,
              model_name |-> model_name, msgs |-> msgs]
        ELSE LET fallback_provider  == models_chain[idx + 1][1]
                 fallback_model_key == models_chain[idx + 1][2]
                 fallback_model == get_model_for_provider(cr, cu,
                                      fallback_provider, fallback_model_key)
                 new_name == ConfigModelName(fallback_provider, fallback_model_key)
             IN  IF fallback_model = NoModel
                 THEN FallbackScan(cr, cu, task, idx + 1, provider, model_name, msgs + 1)
                 ELSE IF CanBind(fallback_model)
                 THEN [found |-> TRUE, handle |-> fallback_model,
                       provider |-> fallback_provider, model_name |-> new_name,
                       msgs |-> msgs + 2]
                 ELSE FallbackScan(cr, cu, task, idx + 1,
                                   fallback_provider, new_name, msgs + 1)

Messages(n, iter) == [i \in 1..n |-> Ev("message", iter)]

\* The rate-limit handler of _agentic_loop_stream (lines 1300-1372) as one
\* function of the store and the request: the store and the request after
\* it and the events it yields.  pc "raised": the exception of
\* rotate_credential leaves the generator.
RateLimitHandler(cr, cu, r) ==
    LET rotated == rotate_credential(cr, cu, r.provider)
        ncr == rotated.creds
        ncu == rotated.cursor
        rotated_model ==
            IF IsPinned(r.selected)
            THEN get_model_for_provider(ncr, ncu, r.selected[1], r.selected[2])
            ELSE router_get_model(ncr, ncu, r.task, 0)
        step1_msgs == IF rotated.result = "true" THEN 1 ELSE 0
        scan == FallbackScan(ncr, ncu, r.task, 1, r.provider, r.model_name, step1_msgs)
        base == [r EXCEPT !.outcome = "ratelimit",
                          !.invoked = @ \cup {r.handle.provider}]
    IN  IF rotated.result = "raise"
        THEN [creds |-> ncr, cursor |-> ncu, result |-> rotated.result,
              req |-> [base EXCEPT !.pc = "raised"],
              events |-> << >>]
        ELSE IF rotated.result = "true" /\ CanBind(rotated_model)
        THEN [creds |-> ncr, cursor |-> ncu, result |-> rotated.result,
              req |-> [base EXCEPT !.pc = "loop",
                                   !.handle = rotated_model,
                                   !.iteration = @ - 1],
              events |-> Messages(2, r.iteration)]
        ELSE IF r.use_fallback
        THEN IF Len(get_models_for_task(r.task)) > 1 /\ scan.found
             THEN [creds |-> ncr, cursor |-> ncu, result |-> rotated.result,
                   req |-> [base EXCEPT !.pc = "loop",
                                        !.handle = scan.handle,
                                        !.provider = scan.provider,
                                        !.model_name = scan.model_name,
                                        !.iteration = @ - 1],
                   events |-> Messages(scan.msgs, r.iteration)]
             ELSE [creds |-> ncr, cursor |-> ncu, result |-> rotated.result,
                   req |-> [base EXCEPT !.pc = "finished",
                                        !.provider = scan.provider,
                                        !.model_name = scan.model_name],
                   events |-> Messages(IF Len(get_models_for_task(r.task)) > 1
                                       THEN scan.msgs ELSE step1_msgs, r.iteration)
                              \o <<Ev("error", r.iteration)>>]
        ELSE [creds |-> ncr, cursor |-> ncu, result |-> rotated.result,
              req |-> [base EXCEPT !.pc = "finished"],
              events |-> Messages(step1_msgs, r.iteration)
                         \o <<Ev("error", r.iteration)>>]

\* ainvoke raises a rate-limit signal ("429", "rate limit" or "quota" in
\* the error text).
ModelRateLimitedStream ==
    /\ req.pc = "invoke"
    /\ req.kind = "stream"
    /\ LET h == RateLimitHandler(creds, cursor, req)
       IN  /\ creds' = h.creds
           /\ cursor' = h.cursor
           /\ rot' = [provider |-> req.provider, result |-> h.result]
           /\ req' = h.req
           /\ mon' = ObserveAll(mon, h.events)
    /\ UNCHANGED <<bindable, sideVars>>

\* The next tool call of the response: feed the loop detector; on a loop
\* yield the explanation and done(loop_detected), otherwise the progress
\* message and tool_start.
ToolStartStream ==
    /\ req.pc = "tools"
    /\ req.kind = "stream"
    /\ LET call == Head(req.toolq)
           h    == add_call(req.history, call)
       IN  IF is_looping(h)
           THEN /\ req' = [req EXCEPT !.history = h, !.pc = "finished"]
                /\ mon' = ObserveAll(mon,
                             <<Ev("message", req.iteration),
                               DoneEv(req.iteration, req.provider,
                                      req.model_name, "loop_detected")>>)
           ELSE /\ req' = [req EXCEPT !.history = h, !.pc = "tool_run"]
                /\ mon' = ObserveAll(mon,
                             <<Ev("message", req.iteration),
                               ToolEv("tool_start", req.askedIter, call.name)>>)
    /\ UNCHANGED <<creds, cursor, rot, bindable, sideVars>>

\* A faulty tool dispatch, kept to show what C20 rules out: the result of a
\* timed-out tool gives no ToolMessage, the model is invoked again without
\* learning of the timeout.
ToolFinishStream_Unreported ==
    /\ req.pc = "tool_run"
    /\ req.kind = "stream"
    /\ \E outcome \in ToolOutcomes :
          LET call == Head(req.toolq)
              result == execute_tool_call(call.name, outcome)
              appended == IF result.error = "timed_out" THEN req
                          ELSE AppendMessage(req, to_tool_message(result))
          IN  /\ mon' = ObserveAll(mon,
                           <<ToolEv("tool_complete", req.askedIter, call.name)>>
                           \o (IF HasObservation(call.name, outcome)
                               THEN <<Ev("message", req.iteration)>> ELSE << >>)
                           \o (IF call.name \in FileModifyingTools
                               THEN <<Ev("file_tree_updated", req.iteration)>>
                               ELSE << >>))
              /\ req' = [appended EXCEPT
                            !.timed_out = WaitForTimesOut(call.name, outcome),
                            !.toolq = Tail(@),
                            !.pc = IF Tail(req.toolq) = << >>
                                   THEN "loop" ELSE "tools"]
    /\ UNCHANGED <<creds, cursor, rot, bindable, sideVars>>

\* A faulty tool dispatch, kept to show what C9 rules out: the exception or
\* the timeout of a tool leaves execute_tool_calls, the except clause of the
\* loop takes it for a model error and yields error without tool_complete.
ToolFinishStream_Escapes ==
    /\ req.pc = "tool_run"
    /\ req.kind = "stream"
    /\ \E outcome \in ToolOutcomes :
          LET call == Head(req.toolq)
          IN  IF outcome \in {"exception", "timeout"}
              THEN /\ mon' = Observe(mon, Ev("error", req.iteration))
                   /\ req' = [req EXCEPT !.pc = "finished"]
              ELSE /\ mon' = ObserveAll(mon,
                                <<ToolEv("tool_complete", req.askedIter, call.name)>>
                                \o (IF HasObservation(call.name, outcome)
                                    THEN <<Ev("message", req.iteration)>> ELSE << >>)
                                \o (IF call.name \in FileModifyingTools
                                    THEN <<Ev("file_tree_updated", req.iteration)>>
                                    ELSE << >>))
                   /\ req' = [AppendMessage(req, "tool") EXCEPT
                                 !.timed_out = FALSE,
                                 !.toolq = Tail(@),
                                 !.pc = IF Tail(req.toolq) = << >>
                                        THEN "loop" ELSE "tools"]
    /\ UNCHANGED <<creds, cursor, rot, bindable, sideVars>>

\* execute_tool_calls([tool_call]) returns a ToolMessage whatever the tool
\* does; then tool_complete, the observation and file_tree_updated.
ToolFinishStream ==
    /\ req.pc = "tool_run"
    /\ req.kind = "stream"
    /\ \E outcome \in ToolOutcomes :
          LET call == Head(req.toolq)
              result == execute_tool_call(call.name, outcome)
          IN  /\ mon' = ObserveAll(mon,
                           <<ToolEv("tool_complete", req.askedIter, call.name)>>
                           \o (IF HasObservation(call.name, outcome)
                               THEN <<Ev("message", req.iteration)>> ELSE << >>)
                           \o (IF call.name \in FileModifyingTools
                               THEN <<Ev("file_tree_updated", req.iteration)>>
                               ELSE << >>))
              /\ req' = [AppendMessage(req, to_tool_message(result)) EXCEPT
                            !.timed_out = WaitForTimesOut(call.name, outcome),
                            !.toolq = Tail(@),
                            !.pc = IF Tail(req.toolq) = << >>
                                   THEN "loop" ELSE "tools"]
    /\ UNCHANGED <<creds, cursor, rot, bindable, sideVars>>

\* _simple_stream: select the model as selected_model says, stream its
\* tokens and yield done; any exception (a None model, a rate-limit signal
\* included) yields error.
SimpleStream ==
    /\ req.pc = "simple"
    /\ req.kind = "stream"
    /\ LET model == SelectedHandle(creds, cursor, req.task, req.simple_sel)
           provider == SelectedProvider(req.task, req.simple_sel)
           model_name == SelectedModelName(req.task, req.simple_sel)
           base == [req EXCEPT !.pc = "finished",
                               !.provider = provider,
                               !.model_name = model_name,
                               !.use_fallback = ~IsPinned(req.simple_sel)]
       IN  IF model = NoModel
           THEN /\ req' = [base EXCEPT !.outcome = "error"]
                /\ mon' = Observe(mon, Ev("error", 0))
           ELSE \E outcome \in {"final", "ratelimit", "error"},
                   has_tokens \in BOOLEAN :
                   /\ req' = [base EXCEPT
                                 !.outcome = outcome,
                                 !.handle = model,
                                 !.invoked = @ \cup {model.provider}]
                   /\ mon' = ObserveAll(mon,
                                (IF has_tokens THEN <<Ev("token", 0)>> ELSE << >>)
                                \o <<IF outcome = "final"
                                     THEN DoneEv(1, provider, model_name, "")
                                     ELSE Ev("error", 0)>>)
    /\ UNCHANGED <<creds, cursor, rot, bindable, sideVars>>

StreamNext ==
    \/ StartStream
    \/ SelectModelStream
    \/ LoopTopStream
    \/ ModelAnswersStream
    \/ ModelRequestsToolsStream
    \/ ModelFailsStream
    \/ ModelRateLimitedStream
    \/ ToolStartStream
    \/ ToolFinishStream
    \/ SimpleStream

----------------------------------------------------------------------------
(* The non-streaming path: process *)

\* AgentResponse: success, the labels, the iteration count.
Response(success, provider, model, iterations) ==
    [Ev("response", iterations) EXCEPT
        !.provider = provider, !.model = model,
        !.flag = IF success THEN "success" ELSE "failure"]

\* process up to the choice of the path.
StartSync ==
    /\ req.pc \in {"idle", "finished", "raised"}
    /\ \E task \in TaskTypes, sel \in SelectedModels :
          req' = [IdleRequest EXCEPT
                     !.pc = IF _should_use_tools(task) THEN "select" ELSE "simple",
                     !.kind = "sync",
                     !.task = task,
                     !.selected = sel,
                     !.simple_sel = sel]
    /\ mon' = InitMon
    /\ rot' = NoRotation     \* no rotate_credential call of this request yet
    /\ UNCHANGED <<creds, cursor, bindable, sideVars>>

\* _agentic_loop up to the loop; when binding raises, hand over to
\* _simple_invoke(messages, task_type).
SelectModelSync ==
    /\ req.pc = "select"
    /\ req.kind = "sync"
    /\ LET model == SelectedHandle(creds, cursor, req.task, req.selected)
       IN  req' = [req EXCEPT
                      !.provider = SelectedProvider(req.task, req.selected),
                      !.model_name = SelectedModelName(req.task, req.selected),
                      !.use_fallback = ~IsPinned(req.selected),
                      !.handle = IF CanBind(model) THEN model ELSE NoModel,
                      !.simple_sel = IF CanBind(model) THEN @ ELSE Auto,
                      !.pc = IF CanBind(model) THEN "loop" ELSE "simple"]
    /\ UNCHANGED <<creds, cursor, rot, bindable, mon, sideVars>>

\* Top of the while loop of _agentic_loop, or the return after it.
LoopTopSync ==
    /\ req.pc = "loop"
    /\ req.kind = "sync"
    /\ IF req.iteration < MAX_TOOL_ITERATIONS
       THEN req' = [req EXCEPT !.iteration = @ + 1, !.pc = "invoke"]
       ELSE req' = [req EXCEPT
                       !.pc = "finished",
                       !.response = Response(TRUE, req.provider, req.model_name,
                                             req.iteration)]
    /\ UNCHANGED <<creds, cursor, rot, bindable, mon, sideVars>>

\* The response has no tool calls: return the AgentResponse.
ModelAnswersSync ==
    /\ req.pc = "invoke"
    /\ req.kind = "sync"
    /\ req' = [req EXCEPT
                  !.pc = "finished",
                  !.outcome = "final",
                  !.invoked = @ \cup {req.handle.provider},
                  !.response = Response(TRUE, req.provider, req.model_name,
                                        req.iteration)]
    /\ UNCHANGED <<creds, cursor, rot, bindable, mon, sideVars>>

\* The response carries tool calls: execute_tool_calls runs them all.
ModelRequestsToolsSync ==
    /\ req.pc = "invoke"
    /\ req.kind = "sync"
    /\ \E calls \in ToolCallLists :
          req' = [req EXCEPT !.pc = "loop",
                             !.outcome = "tools",
                             !.invoked = @ \cup {req.handle.provider}]
    /\ UNCHANGED <<creds, cursor, rot, bindable, mon, sideVars>>

\* ainvoke raises: on a rate-limit signal in Auto mode the credential of
\* provider is rotated (lines 937-941), then the failure is returned.
ModelFailsSync ==
    /\ req.pc = "invoke"
    /\ req.kind = "sync"
    /\ \E is_rate_limit \in BOOLEAN :
          LET rotated == rotate_credential(creds, cursor, req.provider)
              base == [req EXCEPT
                          !.outcome = IF is_rate_limit THEN "ratelimit" ELSE "error",
                          !.invoked = @ \cup {req.handle.provider}]
              failed == [base EXCEPT
                            !.pc = "finished",
                            !.response = Response(FALSE, req.provider,
                                                  req.model_name, req.iteration)]
          IN  IF is_rate_limit /\ req.use_fallback
              THEN /\ creds' = rotated.creds
                   /\ cursor' = rotated.cursor
                   /\ rot' = [provider |-> req.provider, result |-> rotated.result]
                   /\ req' = IF rotated.result = "raise"
                             THEN [base EXCEPT !.pc = "raised"]
                             ELSE failed
              ELSE /\ req' = failed
                   /\ UNCHANGED <<creds, cursor, rot>>
    /\ UNCHANGED <<bindable, mon, sideVars>>

\* _simple_invoke: a pinned model is invoked directly, in Auto mode the
\* call goes to invoke_with_fallback; every exception becomes a failure
\* AgentResponse with the labels "unknown".
SimpleInvoke ==
    /\ req.pc = "simple"
    /\ req.kind = "sync"
    /\ IF IsPinned(req.simple_sel)
       THEN LET model == get_model_for_provider(creds, cursor,
                             req.simple_sel[1], req.simple_sel[2])
            IN  IF model = NoModel
                THEN req' = [req EXCEPT
                                !.pc = "finished",
                                !.response = Response(FALSE, "unknown", "unknown", 1)]
                ELSE \E outcome \in {"final", "ratelimit", "error"} :
                        req' = [req EXCEPT
                                   !.pc = "finished",
                                   !.handle = model,
                                   !.outcome = outcome,
                                   !.invoked = @ \cup {model.provider},
                                   !.response =
                                       IF outcome = "final"
                                       THEN Response(TRUE, req.simple_sel[1],
                                                     req.simple_sel[2], 1)
                                       ELSE Response(FALSE, "unknown", "unknown", 1)]
       ELSE req' = [req EXCEPT !.pc = "iwf", !.level = 0]
    /\ UNCHANGED <<creds, cursor, rot, bindable, mon, sideVars>>

\* One turn of the for loop of ModelRouter.invoke_with_fallback: get the
\* model of the level, invoke it, return on success; on any exception
\* rotate the credential of the level's provider and go on.
InvokeWithFallbackStep ==
    /\ req.pc = "iwf"
    /\ req.level < Len(get_models_for_task(req.task))
    /\ LET provider  == get_models_for_task(req.task)[req.level + 1][1]
           model_key == get_models_for_task(req.task)[req.level + 1][2]
           model     == router_get_model(creds, cursor, req.task, req.level)
           rotated   == rotate_credential(creds, cursor, provider)
       IN  IF model = NoModel
           THEN /\ req' = [req EXCEPT !.level = @ + 1]
                /\ UNCHANGED <<creds, cursor, rot>>
           ELSE \E outcome \in {"final", "ratelimit", "error"} :
                   LET base == [req EXCEPT !.outcome = outcome,
                                           !.handle = model,
                                           !.invoked = @ \cup {model.provider}]
                   IN  IF outcome = "final"
                       THEN /\ req' = [base EXCEPT
                                          !.pc = "finished",
                                          !.response =
                                              Response(TRUE, provider,
                                                  IF HasProviderConfig(provider)
                                                  THEN ProviderModels[provider][model_key]
                                                  ELSE "unknown", 1)]
                            /\ UNCHANGED <<creds, cursor, rot>>
                       ELSE /\ creds' = rotated.creds
                            /\ cursor' = rotated.cursor
                            /\ rot' = [provider |-> provider, result |-> rotated.result]
                            /\ req' = IF rotated.result = "raise"
                                      THEN [base EXCEPT
                                               !.pc = "finished",
                                               !.response = Response(FALSE, "unknown",
                                                                     "unknown", 1)]
                                      ELSE [base EXCEPT !.level = @ + 1]
    /\ UNCHANGED <<bindable, mon, sideVars>>

\* The emergency fallback after the loop of invoke_with_fallback.
InvokeWithFallbackEmergency ==
    /\ req.pc = "iwf"
    /\ req.level >= Len(get_models_for_task(req.task))
    /\ LET model == providers_get_model(creds, cursor, "ollama", EmergencyOllamaModel)
       IN  \E ok \in BOOLEAN :
              req' = [req EXCEPT
                         !.pc = "finished",
                         !.handle = model,
                         !.outcome = IF ok THEN "final" ELSE "error",
                         !.invoked = @ \cup {model.provider},
                         !.response =
                             IF ok THEN Response(TRUE, "ollama", EmergencyOllamaModel, 1)
                             ELSE Response(FALSE, "none", "none", 1)]
    /\ UNCHANGED <<creds, cursor, rot, bindable, mon, sideVars>>

SyncNext ==
    \/ StartSync
    \/ SelectModelSync
    \/ LoopTopSync
    \/ ModelAnswersSync
    \/ ModelRequestsToolsSync
    \/ ModelFailsSync
    \/ SimpleInvoke
    \/ InvokeWithFallbackStep
    \/ InvokeWithFallbackEmergency

----------------------------------------------------------------------------
(* Specification *)

Next == StreamNext \/ SyncNext

Spec == Init /\ [][Next]_vars

\* The request coroutine is resumed whenever it can take a step: the event
\* loop keeps awaiting it and the consumer keeps reading the stream.
FairSpec == Spec /\ WF_vars(Next)

----------------------------------------------------------------------------
(* The credential store on its own: any caller, any order of calls *)

\* cred_manager.rotate_credential(p), called directly.
RotateCredential ==
    \E p \in Providers \cup {UnknownProvider} :
       LET rotated == rotate_credential(creds, cursor, p)
       IN  /\ creds' = rotated.creds
           /\ cursor' = rotated.cursor
           /\ rot' = [provider |-> p, result |-> rotated.result]
           /\ UNCHANGED <<bindable, req, mon, sideVars>>

\* cred_manager.reset_credentials(), called directly.
ResetCredentials ==
    /\ creds' = reset_credentials(creds)
    /\ rot' = NoRotation
    /\ UNCHANGED <<cursor, bindable, req, mon, sideVars>>

StoreNext == RotateCredential \/ ResetCredentials

StoreSpec == Init /\ [][StoreNext]_vars

----------------------------------------------------------------------------
(* The loop detector on its own: any sequence of tool calls *)

\* Two patch_file calls that differ in replace_text only, the fourth of
\* their sorted argument items.
PatchCallA ==
    [name |-> "patch_file",
     args |-> << <<"find_text", "a">>, <<"occurrence", "1">>,
                 <<"path", "b.py">>, <<"replace_text", "x">> >>]
PatchCallB ==
    [name |-> "patch_file",
     args |-> << <<"find_text", "a">>, <<"occurrence", "1">>,
                 <<"path", "b.py">>, <<"replace_text", "y">> >>]

DetectorCalls == {CreateCall, UnknownCall, PatchCallA, PatchCallB}

\* The latest (up to three) elements of a sequence.
LastThree(s) == SubSeq(s, IF Len(s) > 3 THEN Len(s) - 2 ELSE 1, Len(s))

\* loop_detector.add_call(tool_name, tool_args) followed by
\* loop_detector.is_looping(), as the tool dispatch does for every call.
FeedDetector ==
    /\ \E call \in DetectorCalls :
          LET h == add_call(det.history, call)
          IN  det' = [history |-> h,
                      calls   |-> LastThree(Append(det.calls, call)),
                      looping |-> is_looping(h)]
    /\ UNCHANGED besidesDet

\* A new request constructs a new _LoopDetector.
RenewDetector ==
    /\ det' = NewDetector
    /\ UNCHANGED besidesDet

DetectorNext == FeedDetector \/ RenewDetector

DetectorSpec == Init /\ [][DetectorNext]_vars

----------------------------------------------------------------------------
(* The tool executor of one request on its own: tools/executor.py and the *)
(* places of the agentic loop that use it                                  *)

\* Lines 1254-1258 of the loop with ToolExecutor.execute_tool_call: the
\* tool_start event is yielded, the call is executed; the result is
\* appended to execution_history unless the name was unknown, in which
\* case execute_tool_call has returned before the append.
DispatchTool ==
    /\ ~exe.done
    /\ exe.tool_starts < MaxDispatches
    /\ \E call \in ToolCalls, outcome \in ToolOutcomes :
          LET result == execute_tool_call(call.name, outcome)
          IN  exe' = [exe EXCEPT
                         !.tool_starts = @ + 1,
                         !.execution_history =
                              IF call.name \in ToolNames
                              THEN Append(@, result) ELSE @]
    /\ UNCHANGED besidesExe

\* get_execution_summary()["total_calls"] as the done event (or the
\* AgentResponse) reports it.
ReportToolCalls ==
    /\ ~exe.done
    /\ exe' = [exe EXCEPT !.done = TRUE,
                          !.tool_calls_count = Len(exe.execution_history)]
    /\ UNCHANGED besidesExe

\* The next request builds its own ToolExecutor(tools).
RenewExecutor ==
    /\ exe.done
    /\ exe' = NewExecutor
    /\ UNCHANGED besidesExe

\* An iteration of _agentic_loop raises (the model invocation fails): the
\* except clause returns the failed AgentResponse.
RequestFails ==
    /\ ~exe.done
    /\ LET response == partial_result(exe.execution_history)
       IN  exe' = [exe EXCEPT !.done = TRUE,
                              !.tool_calls_count = response.tool_calls_count,
                              !.response = response]
    /\ UNCHANGED besidesExe

ExecutorNext ==
    DispatchTool \/ ReportToolCalls \/ RequestFails \/ RenewExecutor

ExecutorSpec == Init /\ [][ExecutorNext]_vars

----------------------------------------------------------------------------
(* The file tools on their own: tools/file_tools.py                        *)

\* The state after a call: its arguments, what it returned, the operations
\* it performed and the files it left.
AfterCall(tool, args, verdict, io, files) ==
    [files |-> files, tool |-> tool, args |-> args,
     verdict |-> verdict, io |-> io]

\* read_file, read_file_chunk, list_files, search_files: validate, test
\* existence, read.  grep_search (through search_files off Windows) does
\* the same; list_tree_fast scans without the existence test.
ReadingTool ==
    /\ \E tool \in {"read_file", "read_file_chunk", "list_files",
                    "search_files", "grep_search", "list_tree_fast"},
          path \in ToolPaths :
          LET v == validate_path(path)
              loc == v.full_path
          IN  sbx' =
                IF ~v.is_valid
                THEN AfterCall(tool, <<path>>, "rejected", {}, sbx.files)
                ELSE IF tool = "list_tree_fast"
                THEN AfterCall(tool, <<path>>, "done",
                               {Io("read", loc)}, sbx.files)
                ELSE IF ~PathExists(sbx.files, loc)
                THEN AfterCall(tool, <<path>>, "failed",
                               {Io("stat", loc)}, sbx.files)
                ELSE AfterCall(tool, <<path>>, "done",
                               {Io("stat", loc), Io("read", loc)}, sbx.files)
    /\ UNCHANGED besidesSbx

\* create_file (overwrite or not), modify_file, patch_file: validate, test
\* existence, write.
WritingTool ==
    /\ \E tool \in {"create_file", "modify_file", "patch_file"},
          path \in ToolPaths, overwrite \in BOOLEAN :
          LET v == validate_path(path)
              loc == v.full_path
              present == PathExists(sbx.files, loc)
          IN  sbx' =
                IF ~v.is_valid
                THEN AfterCall(tool, <<path>>, "rejected", {}, sbx.files)
                ELSE IF \/ (tool = "create_file" /\ present /\ ~overwrite)
                        \/ (tool /= "create_file" /\ ~present)
                THEN AfterCall(tool, <<path>>, "failed",
                               {Io("stat", loc)}, sbx.files)
                ELSE IF IsDir(sbx.files, loc)
                THEN AfterCall(tool, <<path>>, "failed",
                               {Io("stat", loc), Io("write", loc)}, sbx.files)
                ELSE AfterCall(tool, <<path>>, "done",
                               {Io("stat", loc), Io("write", loc)},
                               sbx.files \cup {loc})
    /\ UNCHANGED besidesSbx

\* delete_file(path, recursive): a file is unlinked, a directory removed
\* with what lies below it when recursive, and removed when it is empty
\* otherwise (of the directories of the model only the workspace can be
\* empty).
DeleteTool ==
    /\ \E path \in ToolPaths, recursive \in BOOLEAN :
          LET v == validate_path(path)
              loc == v.full_path
              below == {f \in sbx.files : IsRelativeTo(f, loc)}
          IN  sbx' =
                IF ~v.is_valid
                THEN AfterCall("delete_file", <<path>>, "rejected", {}, sbx.files)
                ELSE IF ~PathExists(sbx.files, loc)
                THEN AfterCall("delete_file", <<path>>, "failed",
                               {Io("stat", loc)}, sbx.files)
                ELSE IF loc \in sbx.files \/ recursive \/ below = {}
                THEN AfterCall("delete_file", <<path>>, "done",
                               {Io("stat", loc), Io("write", loc)},
                               sbx.files \ below)
                ELSE AfterCall("delete_file", <<path>>, "failed",
                               {Io("stat", loc), Io("read", loc)}, sbx.files)
    /\ UNCHANGED besidesSbx

\* move_file(source, destination): validate the source, test that it
\* exists, validate the destination, move.
MoveTool ==
    /\ \E source \in ToolPaths, destination \in ToolPaths :
          LET s == validate_path(source)
              d == validate_path(destination)
              args == <<source, destination>>
              source_path == s.full_path
              dest_path == d.full_path
              moved == {f \in sbx.files : IsRelativeTo(f, source_path)}
              \* shutil.move into an existing directory keeps the name
              target == IF IsDir(sbx.files, dest_path)
                        THEN Append(dest_path, source_path[Len(source_path)])
                        ELSE dest_path
              Rebase(f) == target \o SubSeq(f, Len(source_path) + 1, Len(f))
          IN  sbx' =
                IF ~s.is_valid
                THEN AfterCall("move_file", args, "rejected", {}, sbx.files)
                ELSE IF ~PathExists(sbx.files, source_path)
                THEN AfterCall("move_file", args, "failed",
                               {Io("stat", source_path)}, sbx.files)
                ELSE IF ~d.is_valid
                THEN AfterCall("move_file", args, "rejected",
                               {Io("stat", source_path)}, sbx.files)
                ELSE IF IsRelativeTo(dest_path, source_path)
                THEN AfterCall("move_file", args, "failed",
                               {Io("stat", source_path), Io("write", dest_path)},
                               sbx.files)
                ELSE AfterCall("move_file", args, "done",
                               {Io("stat", source_path), Io("write", source_path),
                                Io("write", dest_path)},
                               (sbx.files \ moved) \cup {Rebase(f) : f \in moved})
    /\ UNCHANGED besidesSbx

SandboxNext == ReadingTool \/ WritingTool \/ DeleteTool \/ MoveTool

\* The file tools read neither the credential store nor the model classes:
\* one environment, every key slot filled and every class binding tools.
FullEnvironment ==
    /\ Init
    /\ \A p \in Providers \ {"ollama"} : Len(creds[p]) = NumKeySlots
    /\ bindable = Providers

SandboxSpec == FullEnvironment /\ [][SandboxNext]_vars

----------------------------------------------------------------------------
(* Requests with user keys against the credential store                    *)

Operation(r, op, result, owner, scope) ==
    [req |-> r, op |-> op, result |-> result, owner |-> owner, scope |-> scope]

\* The store an operation of request r works on for provider p: the entry
\* _get_provider_creds returns in the place of the process-wide one.
EffectiveCreds(r, p) == [creds EXCEPT ![p] = _get_provider_creds(r, p).keys]
EffectiveCursor(r, p) == [cursor EXCEPT ![p] = _get_provider_creds(r, p).idx]

\* A request starts: it runs in a context of its own, copied from the
\* server's, in which no user key was ever set.
BeginRequest ==
    /\ \E r \in Requests \ usr.live :
          usr' = [usr EXCEPT !.live = @ \cup {r},
                             !.ctx[r] = EmptyContext,
                             !.last = Operation(r, "begin", "none", "none", "none")]
    /\ UNCHANGED <<creds, cursor, besidesUsr>>

\* CredentialManager.set_user_keys called by a request
SetUserKeys ==
    /\ \E r \in usr.live, n \in 0..NumKeySlots, with_settings \in BOOLEAN :
          usr' = [usr EXCEPT !.ctx[r] = set_user_keys(r, n, with_settings),
                             !.last = Operation(r, "set", "none", "none", "none")]
    /\ UNCHANGED <<creds, cursor, besidesUsr>>

\* get_credential(UserProvider) called by a request: the key under the
\* cursor when it is active, told by whose key it is.
UserGetCredential ==
    /\ \E r \in usr.live :
          LET pc == _get_provider_creds(r, UserProvider)
              found == HasCredential(EffectiveCreds(r, UserProvider),
                                     EffectiveCursor(r, UserProvider), UserProvider)
          IN  usr' = [usr EXCEPT !.last =
                          IF found
                          THEN Operation(r, "get", "key", pc.owner, pc.scope)
                          ELSE Operation(r, "get", "None", "none", pc.scope)]
    /\ UNCHANGED <<creds, cursor, besidesUsr>>

\* is_provider_available(UserProvider) called by a request
UserIsAvailable ==
    /\ \E r \in usr.live :
          LET pc == _get_provider_creds(r, UserProvider)
              avail == is_provider_available(EffectiveCreds(r, UserProvider),
                                             UserProvider)
          IN  usr' = [usr EXCEPT !.last =
                          Operation(r, "is_available",
                                    IF avail THEN "true" ELSE "false",
                                    pc.owner, pc.scope)]
    /\ UNCHANGED <<creds, cursor, besidesUsr>>

\* rotate_credential(UserProvider) called by a request: the entry that
\* _get_provider_creds returned is the one marked and moved.
UserRotateCredential ==
    /\ \E r \in usr.live :
          LET pc == _get_provider_creds(r, UserProvider)
              rotated == rotate_credential(EffectiveCreds(r, UserProvider),
                                           EffectiveCursor(r, UserProvider),
                                           UserProvider)
              done == Operation(r, "rotate", rotated.result, pc.owner, pc.scope)
          IN  IF pc.scope = "user"
              THEN /\ usr' = [usr EXCEPT
                                 !.ctx[pc.owner].creds =
                                     [owner |-> pc.owner,
                                      keys  |-> rotated.creds[UserProvider],
                                      idx   |-> rotated.cursor[UserProvider]],
                                 !.last = done]
                   /\ UNCHANGED <<creds, cursor>>
              ELSE /\ usr' = [usr EXCEPT !.last = done]
                   /\ creds' = rotated.creds
                   /\ cursor' = rotated.cursor
    /\ UNCHANGED besidesUsr

\* get_setting("ollama_url") called by a request: the value of the
\* request's settings, told by who set it, or the default.
UserGetSetting ==
    /\ \E r \in usr.live :
          usr' = [usr EXCEPT !.last =
                     Operation(r, "get_setting",
                               IF user_settings_context(r) = "none"
                               THEN "default" ELSE "set",
                               user_settings_context(r), "none")]
    /\ UNCHANGED <<creds, cursor, besidesUsr>>

\* The request terminates: its context is discarded with it.
EndRequest ==
    /\ \E r \in usr.live :
          usr' = [usr EXCEPT !.live = @ \ {r},
                             !.ctx[r] = EmptyContext,
                             !.last = Operation(r, "end", "none", "none", "none")]
    /\ UNCHANGED <<creds, cursor, besidesUsr>>

UserKeysNext ==
    \/ BeginRequest
    \/ SetUserKeys
    \/ UserGetCredential
    \/ UserIsAvailable
    \/ UserRotateCredential
    \/ UserGetSetting
    \/ EndRequest

\* The process-wide store with any number of keys for UserProvider; the
\* other providers play no part.
UserKeysEnvironment ==
    /\ Init
    /\ Len(creds["cerebras"]) = NumKeySlots
    /\ bindable = Providers

UserKeysSpec == UserKeysEnvironment /\ [][UserKeysNext]_vars

----------------------------------------------------------------------------
(* A ContextManager called directly: context/manager.py                    *)

\* add_message(role, content, task_type)
AddMessage ==
    /\ \E msg \in ContextMessages :
          ctx' = [add_message(ctx, msg) EXCEPT !.op = "add_message",
                                               !.context = NoContextBuilt]
    /\ UNCHANGED besidesCtx

\* set_task_context(...): the texts of the new task context, by their size
\* in tokens (none, a short error message, a long terminal output).
SetTaskContext ==
    /\ \E size \in {0, 150, 5000} :
          ctx' = [ctx EXCEPT !.task_tokens = size, !.op = "set_task_context",
                             !.context = NoContextBuilt]
    /\ UNCHANGED besidesCtx

\* record_file_created(path)
RecordFileCreated ==
    /\ ctx' = [ctx EXCEPT !.files_created = TRUE, !.op = "record_file_created",
                          !.context = NoContextBuilt]
    /\ UNCHANGED besidesCtx

\* get_context_for_task(task_type); "no_such_task" has no row of its own.
GetContextForTask ==
    /\ \E task_type \in (DOMAIN TOKEN_BUDGETS) \cup {"no_such_task"} :
          ctx' = [ctx EXCEPT !.context = get_context_for_task(ctx, task_type),
                             !.op = "get_context_for_task"]
    /\ UNCHANGED besidesCtx

\* clear_all()
ClearAll ==
    /\ ctx' = [NewContext EXCEPT !.op = "clear_all"]
    /\ UNCHANGED besidesCtx

ContextNext ==
    \/ AddMessage
    \/ SetTaskContext
    \/ RecordFileCreated
    \/ GetContextForTask
    \/ ClearAll

ContextSpec == FullEnvironment /\ [][ContextNext]_vars

----------------------------------------------------------------------------
(* The tool operations of one request: orchestrator.py (tool loop),        *)
(* tools/executor.py (execute_tool_call), tools/terminal_tools.py          *)

\* The model answers: with tool calls, which the loop takes one after the
\* other, or with the final text.
RunModelResponds ==
    /\ run.pc = "model"
    /\ \E n \in 0..2 :
          /\ run.started + n <= MaxToolRuns
          /\ run' = [run EXCEPT !.queue = n,
                                !.pc = IF n = 0 THEN "end" ELSE "loop"]
    /\ UNCHANGED besidesRun

\* execute_tool_call up to its await: tool.ainvoke(tool_args) or
\* loop.run_in_executor(None, lambda: tool.invoke(tool_args)) is started
\* under asyncio.wait_for.
RunStartTool ==
    /\ run.pc = "loop"
    /\ run.queue > 0
    /\ \E k \in ToolKinds :
          LET id == run.started + 1
          IN  run' = [run EXCEPT !.started = id,
                                 !.current = id,
                                 !.kind = Append(@, k),
                                 !.live = @ \cup {id},
                                 !.queue = @ - 1,
                                 !.pc = "tool"]
    /\ UNCHANGED besidesRun

\* The operation ends within timeout_seconds: its result is returned.
RunToolReturns ==
    /\ run.pc = "tool"
    /\ run.current \in run.live
    /\ run' = [run EXCEPT !.live = @ \ {run.current}, !.pc = "loop"]
    /\ UNCHANGED besidesRun

\* except asyncio.TimeoutError: the timeout result is returned to the loop.
RunWaitForTimesOut ==
    /\ run.pc = "tool"
    /\ run.current \in run.live
    /\ run' = [run EXCEPT !.live = CancelOnTimeout(run),
                          !.timed_out = @ \cup {run.current},
                          !.pc = "loop"]
    /\ UNCHANGED besidesRun

\* A thread the executor stopped waiting for reaches the end of its
\* tool.invoke: a file tool has written by then, a command of
\* _run_command_sync has ended or was killed by subprocess.run's own
\* timeout (300 s by default) and may have written before.
RunThreadFinishes ==
    /\ \E id \in run.live \cap run.timed_out :
       \E wrote \in BOOLEAN :
          run' = [run EXCEPT !.live = @ \ {id},
                             !.late = IF wrote THEN @ \cup {id} ELSE @]
    /\ UNCHANGED besidesRun

\* The tool calls of the response are done: the next iteration invokes the
\* model.
RunNextInvocation ==
    /\ run.pc = "loop"
    /\ run.queue = 0
    /\ run' = [run EXCEPT !.pc = "model"]
    /\ UNCHANGED besidesRun

\* The request has ended and its threads with it: the next request.
RunNextRequest ==
    /\ run.pc = "end"
    /\ run.live = {}
    /\ run /= NewRun
    /\ run' = NewRun
    /\ UNCHANGED besidesRun

ToolRunNext ==
    \/ RunModelResponds
    \/ RunStartTool
    \/ RunToolReturns
    \/ RunWaitForTimesOut
    \/ RunThreadFinishes
    \/ RunNextInvocation
    \/ RunNextRequest

ToolRunSpec == FullEnvironment /\ [][ToolRunNext]_vars

----------------------------------------------------------------------------
(* Tool results handed to the model: tools/executor.py (to_tool_message)   *)

\* to_tool_message of a successful result: content = _format_result(result)
FormatResult ==
    /\ \E impl \in {CliExecutor, BackendExecutor}, kind \in ResultKinds,
          size \in ResultSizes :
          /\ kind = "none" => size = 0
          /\ fmt' = [given |-> TRUE, impl |-> impl, kind |-> kind, size |-> size,
                  text |-> _format_result(impl, kind, size)]
    /\ UNCHANGED besidesFmt

FormatNext == FormatResult

FormatSpec == FullEnvironment /\ [][FormatNext]_vars

----------------------------------------------------------------------------
(* The content tools called on one path: tools/file_tools.py               *)

\* What can be at the path when the first call comes.
FoundNodes == {Absent, Directory} \cup {FileOf(t) : t \in Texts(MaxFileChars)}

\* The texts given to create_file and to patch_file.
NewContents == Texts(1)
PatchTexts == Texts(1)

\* The call just made becomes the latest one.
AfterToolCall(node, call) ==
    [doc EXCEPT !.node = node, !.prev = doc.last, !.last = call]

\* Two calls are followed from what was found at the path.
MayCall == doc.given /\ doc.prev = NoCall

DocFound ==
    /\ ~doc.given
    /\ \E node \in FoundNodes :
          doc' = [given |-> TRUE, node |-> node, prev |-> NoCall, last |-> NoCall]
    /\ UNCHANGED besidesDoc

DocForgotten ==
    /\ doc.given
    /\ doc' = NewDoc
    /\ UNCHANGED besidesDoc

CreateFile ==
    /\ MayCall
    /\ \E content \in NewContents, overwrite \in BOOLEAN :
          LET out == create_file(doc.node, content, overwrite)
          IN  doc' = AfterToolCall(out.node,
                        [tool |-> "create_file", content |-> content,
                         overwrite |-> overwrite, before |-> doc.node,
                         result |-> out.result])
    /\ UNCHANGED besidesDoc

ReadFile ==
    /\ MayCall
    /\ doc' = AfterToolCall(doc.node,
                  [tool |-> "read_file", before |-> doc.node,
                   result |-> read_file(doc.node)])
    /\ UNCHANGED besidesDoc

ReadFileChunk ==
    /\ MayCall
    /\ \E start_line \in 0..(MaxFileChars + 1), end_line \in 1..(MaxFileChars + 2) :
          doc' = AfterToolCall(doc.node,
                    [tool |-> "read_file_chunk", start_line |-> start_line,
                     end_line |-> end_line, before |-> doc.node,
                     result |-> read_file_chunk(doc.node, start_line, end_line)])
    /\ UNCHANGED besidesDoc

PatchFile ==
    /\ MayCall
    /\ \E find_text \in PatchTexts, replace_text \in PatchTexts,
          occurrence \in 0..2 :
          LET out == patch_file(doc.node, find_text, replace_text, occurrence)
          IN  doc' = AfterToolCall(out.node,
                        [tool |-> "patch_file", find_text |-> find_text,
                         replace_text |-> replace_text,
                         occurrence |-> occurrence, before |-> doc.node,
                         result |-> out.result])
    /\ UNCHANGED besidesDoc

DocNext ==
    \/ DocFound
    \/ DocForgotten
    \/ CreateFile
    \/ ReadFile
    \/ ReadFileChunk
    \/ PatchFile

DocSpec == FullEnvironment /\ [][DocNext]_vars

----------------------------------------------------------------------------
(* patch_file on files in which the text sought occurs several times:      *)
(* tools/file_tools.py                                                     *)

\* Texts of two letters, long enough for occurrences that overlap.
LetterTexts(n) == UNION {[1..k -> {"a", "b"}] : k \in 0..n}

PatchFound ==
    /\ ~doc.given
    /\ \E node \in {Absent} \cup {FileOf(t) : t \in LetterTexts(MaxPatchChars)} :
          doc' = [given |-> TRUE, node |-> node, prev |-> NoCall, last |-> NoCall]
    /\ UNCHANGED besidesDoc

PatchOccurrence ==
    /\ doc.given
    /\ doc.last = NoCall
    /\ \E find_text \in LetterTexts(2),
          replace_text \in {<< >>, <<"b">>, <<"a", "b">>},
          occurrence \in 0..MaxPatchChars :
          LET out == patch_file(doc.node, find_text, replace_text, occurrence)
          IN  doc' = AfterToolCall(out.node,
                        [tool |-> "patch_file", find_text |-> find_text,
                         replace_text |-> replace_text,
                         occurrence |-> occurrence, before |-> doc.node,
                         result |-> out.result])
    /\ UNCHANGED besidesDoc

PatchNext == PatchFound \/ PatchOccurrence \/ DocForgotten

PatchSpec == FullEnvironment /\ [][PatchNext]_vars

----------------------------------------------------------------------------
(* move_file called on a workspace tree: tools/file_tools.py               *)

TreeFound ==
    /\ ~tree.given
    /\ \E t \in FoundTrees :
          tree' = [given |-> TRUE, origin |-> t, now |-> t,
                   prev |-> NoCall, last |-> NoCall]
    /\ UNCHANGED besidesTree

TreeForgotten ==
    /\ tree.given
    /\ tree' = NewTree
    /\ UNCHANGED besidesTree

\* Two moves are followed from the tree found.
MoveFile ==
    /\ tree.given
    /\ tree.prev = NoCall
    /\ \E src \in TreePaths, dst \in TreePaths :
          /\ FitsTree(tree.now, src, dst)
          /\ LET out == move_file(tree.now, src, dst)
             IN  tree' = [tree EXCEPT
                            !.now = out.tree,
                            !.prev = tree.last,
                            !.last = [tool |-> "move_file", source |-> src,
                                      destination |-> dst,
                                      before |-> tree.now,
                                      error |-> out.error]]
    /\ UNCHANGED besidesTree

TreeNext == TreeFound \/ TreeForgotten \/ MoveFile

TreeSpec == FullEnvironment /\ [][TreeNext]_vars

----------------------------------------------------------------------------
(* list_files called on a directory: tools/file_tools.py                   *)

ListFiles ==
    /\ ~lst.given
    /\ \E items \in Listings(MaxItems), recursive \in BOOLEAN :
          lst' = [given |-> TRUE, items |-> items, recursive |-> recursive,
                  result |-> list_files(items, recursive)]
    /\ UNCHANGED besidesLst

\* The result was looked at: the next directory.
ListingForgotten ==
    /\ lst.given
    /\ lst' = NoListing
    /\ UNCHANGED besidesLst

ListingNext == ListFiles \/ ListingForgotten

ListingSpec == FullEnvironment /\ [][ListingNext]_vars

----------------------------------------------------------------------------
(* Task classification: orchestrator.py (classify_task and               *)
(* _fallback_classification)                                               *)

\* TaskType: the values of the enumeration.
TaskType ==
    {"chat", "code_explain_simple", "code_explain_complex", "code_generation",
     "code_generation_multi", "bug_fixing", "refactor", "architecture",
     "test_generation", "documentation"}

\* A query, by the keyword lists of _fallback_classification of which its
\* lower-cased text holds a word.
Keywords == {"error", "create", "complete", "explain", "refactor", "test"}

Queries ==
    {q \in SUBSET Keywords : Cardinality(q) <= 1}
        \cup {{"create", "complete"}, {"error", "create"}, {"refactor", "test"}}

\* TaskClassification, with the confidence in tenths.
TaskClassification(task_type, confidence, estimated_complexity) ==
    [task_type |-> task_type, confidence |-> confidence,
     estimated_complexity |-> estimated_complexity]

\* Orchestrator._fallback_classification
_fallback_classification(query) ==
    IF "error" \in query THEN TaskClassification("bug_fixing", 7, "medium")
    ELSE IF "create" \in query
    THEN IF "complete" \in query
         THEN TaskClassification("code_generation_multi", 7, "high")
         ELSE TaskClassification("code_generation", 7, "medium")
    ELSE IF "explain" \in query
    THEN TaskClassification("code_explain_simple", 7, "low")
    ELSE IF "refactor" \in query THEN TaskClassification("refactor", 7, "medium")
    ELSE IF "test" \in query
    THEN TaskClassification("test_generation", 7, "medium")
    ELSE TaskClassification("chat", 5, "low")

\* What a step of the try block leaves: a value, or the exception raised.
Returned(v) == [raised |-> FALSE, value |-> v]

Raised(e) == [raised |-> TRUE, error |-> e]

\* The answer of the classifier model.  lead: the text starts with a
\* <think>...</think> block.  wrap: the body stands alone, in a ```json
\* block, in a ``` block, or between sentences.  The body is a JSON object
\* of scalars (flat), a JSON object with an object inside (nested), a JSON
\* array, words without a brace, or a brace-delimited text that is not
\* JSON; an object has its task_type, confidence and estimated_complexity
\* members or lacks them.
Missing == "(missing)"

Null == "null"

Wraps == {"bare", "json_block", "block", "prose"}

AnswerTaskTypes == {"refactor", "bug_fixing", "poetry", Null, Missing}

AnswerConfidences == {"0.9", "1.5", "high", Missing}

AnswerComplexities == {"low", "extreme", Missing}

Bodies ==
    {[form |-> f, task_type |-> t, confidence |-> c,
      estimated_complexity |-> x] :
        f \in {"flat", "nested"}, t \in AnswerTaskTypes,
        c \in AnswerConfidences, x \in AnswerComplexities}
    \cup {[form |-> f, task_type |-> Missing, confidence |-> Missing,
           estimated_complexity |-> Missing] :
            f \in {"array", "words", "braces"}}

Answers == [lead : BOOLEAN, wrap : Wraps, body : Bodies]

\* content.split("</think>")[-1].strip() when "<think>" is in the content
StripThink(content) ==
    IF content.lead THEN [content EXCEPT !.lead = FALSE] ELSE content

\* The text of the first code block when there is one, stripped.
ExtractBlock(content) ==
    IF content.wrap \in {"json_block", "block"}
    THEN [content EXCEPT !.wrap = "bare"]
    ELSE content

\* The value a JSON text denotes.
JsonValue(body) ==
    IF body.form = "array" THEN [kind |-> "list"]
    ELSE [kind |-> "dict", task_type |-> body.task_type,
          confidence |-> body.confidence,
          estimated_complexity |-> body.estimated_complexity]

\* json.loads(content): the whole text has to be one JSON value.
json_loads(content) ==
    IF content.lead \/ content.wrap /= "bare"
          \/ content.body.form \in {"words", "braces"}
    THEN Raised("JSONDecodeError")
    ELSE Returned(JsonValue(content.body))

\* re.search(r'\{[^}]+\}', content, re.DOTALL) followed by json.loads of
\* the match: the match runs from the first opening brace to the first
\* closing brace, which is the whole of a flat object and a part of a
\* nested one.  Without a match the first error is raised again.
regex_extraction(content) ==
    IF content.body.form = "flat" THEN Returned(JsonValue(content.body))
    ELSE Raised("JSONDecodeError")

\* The parsing steps of classify_task, from the raw answer to data.
parse_answer(answer) ==
    LET content == ExtractBlock(StripThink(answer))
        whole   == json_loads(content)
    IN  IF whole.raised THEN regex_extraction(content) ELSE whole

\* float(x) of a JSON number or string, in tenths.
float_tenths(x) ==
    IF x = "0.9" THEN Returned(9)
    ELSE IF x = "1.5" THEN Returned(15)
    ELSE IF x = Null THEN Raised("TypeError")
    ELSE Raised("ValueError")

\* TaskClassification(task_type=TaskType(data.get("task_type", "chat")),
\*     confidence=float(data.get("confidence", 0.8)), ...,
\*     estimated_complexity=data.get("estimated_complexity", "low"), ...)
build_classification(data) ==
    IF data.kind /= "dict" THEN Raised("AttributeError")
    ELSE LET named == IF data.task_type = Missing THEN "chat"
                      ELSE data.task_type
             conf  == IF data.confidence = Missing THEN Returned(8)
                      ELSE float_tenths(data.confidence)
         IN  IF named \notin TaskType THEN Raised("ValueError")
             ELSE IF conf.raised THEN conf
             ELSE Returned(TaskClassification(named, conf.value,
                      IF data.estimated_complexity = Missing THEN "low"
                      ELSE data.estimated_complexity))

\* The body of the try block of classify_task: the model is invoked, its
\* answer parsed and the classification built.  reply is the exception
\* ainvoke raises, or the answer.
try_classification(reply) ==
    IF reply.raised THEN reply
    ELSE LET data == parse_answer(reply.value)
         IN  IF data.raised THEN data ELSE build_classification(data.value)

\* The model classify_task gets: groq's, else cerebras'.
classifier_model(cr, cu) ==
    LET first == get_model_for_provider(cr, cu, "groq",
                                        "llama-3.3-70b-versatile")
    IN  IF first /= NoModel THEN first
        ELSE get_model_for_provider(cr, cu, "cerebras", "zai-glm-4.7")

\* classify_task without its except clause.
classify_task_Propagates(cr, cu, query, reply) ==
    IF classifier_model(cr, cu) = NoModel
    THEN Returned(_fallback_classification(query))
    ELSE try_classification(reply)

\* Orchestrator.classify_task
classify_task(cr, cu, query, reply) ==
    IF classifier_model(cr, cu) = NoModel
    THEN Returned(_fallback_classification(query))
    ELSE LET tried == try_classification(reply)
         IN  IF tried.raised
             THEN Returned(_fallback_classification(query))
             ELSE tried

\* What ainvoke may leave.
Replies == {Raised("APIConnectionError")} \cup {Returned(a) : a \in Answers}

Classify ==
    /\ ~cls.given
    /\ \E query \in Queries, reply \in Replies :
          cls' = [given |-> TRUE, query |-> query,
                  model |-> classifier_model(creds, cursor),
                  reply |-> reply,
                  result |-> classify_task(creds, cursor, query, reply)]
    /\ UNCHANGED besidesCls

\* The classification was used: the next query.
ClassificationForgotten ==
    /\ cls.given
    /\ cls' = NoClassification
    /\ UNCHANGED besidesCls

ClassifierNext == Classify \/ ClassificationForgotten

ClassifierSpec == Init /\ [][ClassifierNext]_vars

----------------------------------------------------------------------------
(* The keyword classifier on query texts: orchestrator.py                  *)
(* (_fallback_classification)                                              *)

UpperCase == "ABCDEFGHIJKLMNOPQRSTUVWXYZ"

LowerCase == "abcdefghijklmnopqrstuvwxyz"

\* The lower-case letter of an upper-case letter, any other character as
\* it is.
LowerOf ==
    LET at(c) == CHOOSE i \in 1..Len(UpperCase) : SubSeq(UpperCase, i, i) = c
    IN  [c \in {SubSeq(UpperCase, i, i) : i \in 1..Len(UpperCase)} |->
            SubSeq(LowerCase, at(c), at(c))]

LowerChar(c) == IF c \in DOMAIN LowerOf THEN LowerOf[c] ELSE c

\* str.lower()
RECURSIVE str_lower(_)
str_lower(s) ==
    IF Len(s) = 0 THEN s
    ELSE LowerChar(SubSeq(s, 1, 1)) \o str_lower(SubSeq(s, 2, Len(s)))

\* kw in text
Contains(text, kw) ==
    \E i \in 1..(Len(text) - Len(kw) + 1) : SubSeq(text, i, i + Len(kw) - 1) = kw

\* The keyword lists of _fallback_classification, each under its first
\* word.
KeywordLists ==
    [ error    |-> {"error", "bug", "fix", "debug", "traceback", "exception"},
      create   |-> {"create", "generate", "write", "make", "build"},
      complete |-> {"complete", "full", "entire", "system", "application"},
      explain  |-> {"explain", "what does", "how does", "understand"},
      refactor |-> {"refactor", "improve", "optimize", "clean"},
      test     |-> {"test", "unittest", "pytest"} ]

\* The lists of which the query as it is written holds a word.
query_keywords_CaseSensitive(query) ==
    {g \in DOMAIN KeywordLists :
        \E kw \in KeywordLists[g] : Contains(query, kw)}

\* query_lower = query.lower(); any(kw in query_lower for kw in [...]) for
\* each list.
query_keywords(query) ==
    LET query_lower == str_lower(query)
    IN  {g \in DOMAIN KeywordLists :
            \E kw \in KeywordLists[g] : Contains(query_lower, kw)}

\* Orchestrator._fallback_classification on the text of a query.
fallback_classification_of_text(query) ==
    _fallback_classification(query_keywords(query))

\* The words queries are made of.
QueryWords ==
    {"Fix", "NameError", "prefix", "Create", "a", "FULL", "explain", "what",
     "does", "Refactor", "pytest", "hello"}

RECURSIVE Sentence(_)
Sentence(words) ==
    IF Len(words) = 0 THEN ""
    ELSE IF Len(words) = 1 THEN words[1]
    ELSE words[1] \o " " \o Sentence(Tail(words))

QueryTexts ==
    {Sentence(ws) : ws \in UNION {[1..n -> QueryWords] : n \in 0..MaxWords}}
        \cup {"Fix the NameError on line 10"}

ClassifyByKeywords ==
    /\ ~kwd.given
    /\ \E query \in QueryTexts :
          kwd' = [given |-> TRUE, query |-> query,
                  result |-> fallback_classification_of_text(query)]
    /\ UNCHANGED besidesKwd

\* The classification was used: the next query.
QueryForgotten ==
    /\ kwd.given
    /\ kwd' = NoQuery
    /\ UNCHANGED besidesKwd

KeywordNext == ClassifyByKeywords \/ QueryForgotten

KeywordSpec == FullEnvironment /\ [][KeywordNext]_vars

----------------------------------------------------------------------------
(* run_terminal_command and the terminal output buffer:                    *)
(* tools/terminal_tools.py                                                 *)

\* dangerous_patterns of run_terminal_command
dangerous_patterns ==
    {"rm -rf /", "format ", "del /s /q", ":(){:|:&};:", "shutdown", "reboot"}

\* A pattern is in the command as it is written.
is_dangerous_CaseSensitive(command) ==
    \E pattern \in dangerous_patterns : Contains(command, pattern)

\* cmd_lower = command.lower(); pattern in cmd_lower for one of the
\* patterns.
is_dangerous(command) ==
    LET cmd_lower == str_lower(command)
    IN  \E pattern \in dangerous_patterns : Contains(cmd_lower, pattern)

\* _add_to_buffer(text), the text given by its lines (text.split("\n")):
\* the lines are appended and the last _max_buffer_lines lines kept.
_add_to_buffer(buffer, lines) ==
    LET all == buffer \o lines
    IN  IF Len(all) > _max_buffer_lines
        THEN SubSeq(all, Len(all) - _max_buffer_lines + 1, Len(all))
        ELSE all

\* What subprocess.run does with a command: it returns with a return code
\* and the lines of stdout + stderr, the timeout expires, or the process
\* cannot be started.
ProcessOutcomes ==
    {[kind |-> "returned", returncode |-> c, output |-> o] :
        c \in {0, 1}, o \in {<<"">>, <<"done">>, <<"late", "line">>}}
    \cup {[kind |-> "timeout"], [kind |-> "oserror"]}

\* The dictionary a call returns, with what the call did: whether
\* subprocess.run was called, and the buffer it left.
CommandResult(success, exit_code, blocked, started, buffer) ==
    [success |-> success, exit_code |-> exit_code, blocked |-> blocked,
     started |-> started, buffer |-> buffer]

\* _run_command_sync
_run_command_sync(buffer, outcome) ==
    IF outcome.kind = "returned"
    THEN CommandResult(outcome.returncode = 0, outcome.returncode, FALSE,
                       TRUE, _add_to_buffer(buffer, outcome.output))
    ELSE CommandResult(FALSE, -1, FALSE, outcome.kind = "timeout", buffer)

\* run_terminal_command
run_terminal_command(command, buffer, outcome) ==
    IF is_dangerous(command)
    THEN CommandResult(FALSE, -1, TRUE, FALSE, buffer)
    ELSE _run_command_sync(buffer, outcome)

\* The commands asked for.
Commands ==
    {"ls", "python main.py", "rm -r build", "rm -rf /", "RM -RF /tmp",
     "sudo Shutdown now", "Format C:", "del /S /Q x", ":(){:|:&};:",
     "echo hi; REBOOT", "cat formats.txt"}

RunTerminalCommand ==
    /\ \E command \in Commands, outcome \in ProcessOutcomes :
          LET result == run_terminal_command(command, trm.buffer, outcome)
          IN  trm' = [given |-> TRUE, buffer |-> result.buffer,
                      before |-> trm.buffer, command |-> command,
                      result |-> result]
    /\ UNCHANGED besidesTrm

TerminalNext == RunTerminalCommand

TerminalSpec == FullEnvironment /\ [][TerminalNext]_vars

----------------------------------------------------------------------------
(* Two requests with a pinned model running concurrently on the shared     *)
(* credential store: orchestrator.py (_agentic_loop_stream, the model      *)
(* invocation and its rate-limit handler), models/credentials.py           *)

ConcurrentRequests == {1, 2}

\* Each request is suspended at its awaits and yields; between two of them
\* its code runs without interruption.
ParSelectModel(r) ==
    /\ par.req[r].pc = "idle"
    /\ \E p \in Providers \ {"ollama"} :
          LET model_key == CHOOSE k \in DOMAIN ProviderModels[p] : TRUE
              model == get_model_for_provider(creds, cursor, p, model_key)
          IN  par' = [par EXCEPT !.req[r] =
                        IF model = NoModel
                        THEN [pc |-> "done", provider |-> p, cred |-> -1]
                        ELSE [pc |-> "invoking", provider |-> p,
                              cred |-> model.cred]]
    /\ UNCHANGED besidesPar

\* await model_with_tools.ainvoke(...) returns an answer.
ParModelAnswers(r) ==
    /\ par.req[r].pc = "invoking"
    /\ par' = [par EXCEPT !.req[r].pc = "done"]
    /\ UNCHANGED besidesPar

\* await model_with_tools.ainvoke(...) raises the rate-limit signal of the
\* credential the model was built with.
ParModelRateLimited(r) ==
    /\ par.req[r].pc = "invoking"
    /\ par' = [par EXCEPT
                  !.req[r].pc = "limited",
                  !.signalled = @ \cup {<<par.req[r].provider, par.req[r].cred>>}]
    /\ UNCHANGED besidesPar

\* The handler calls cred_manager.rotate_credential(current_provider) and
\* yields its message, or goes on to the error of a pinned model.
ParRotates(r) ==
    /\ par.req[r].pc = "limited"
    /\ LET rotated == rotate_credential(creds, cursor, par.req[r].provider)
       IN  /\ creds' = rotated.creds
           /\ cursor' = rotated.cursor
           /\ par' = [par EXCEPT !.req[r].pc =
                         IF rotated.result = "true" THEN "rotated" ELSE "done"]
    /\ UNCHANGED <<rot, bindable, req, mon, sideVarsBesidesPar>>

\* The handler gets the model again with the credential now under the
\* cursor and the iteration is retried.
ParRetries(r) ==
    /\ par.req[r].pc = "rotated"
    /\ LET p == par.req[r].provider
           model_key == CHOOSE k \in DOMAIN ProviderModels[p] : TRUE
           model == get_model_for_provider(creds, cursor, p, model_key)
       IN  par' = [par EXCEPT !.req[r] =
                      IF model = NoModel
                      THEN [@ EXCEPT !.pc = "done"]
                      ELSE [@ EXCEPT !.pc = "invoking", !.cred = model.cred]]
    /\ UNCHANGED besidesPar

\* The request has ended: the next request of the client.
ParNextRequest(r) ==
    /\ par.req[r].pc = "done"
    /\ par' = [par EXCEPT !.req[r] = IdleConcurrent]
    /\ UNCHANGED besidesPar

ConcurrentNext ==
    \E r \in ConcurrentRequests :
        \/ ParSelectModel(r)
        \/ ParModelAnswers(r)
        \/ ParModelRateLimited(r)
        \/ ParRotates(r)
        \/ ParRetries(r)
        \/ ParNextRequest(r)

ConcurrentSpec == Init /\ [][ConcurrentNext]_vars

----------------------------------------------------------------------------
(* Two requests running concurrently on the one Orchestrator of the        *)
(* process (routers/agent.py, get_orchestrator) and its ContextManager:    *)
(* orchestrator.py (process_stream), context/manager.py                    *)

\* What a request supplies for its task context; None for what it leaves
\* out.
None == "None"

TaskContext(current_file, selected_code, error_message, terminal_output) ==
    [current_file |-> current_file, selected_code |-> selected_code,
     error_message |-> error_message, terminal_output |-> terminal_output]

SuppliedContexts ==
    {TaskContext(f, s, e, None) :
        f \in {None, "a.py", "b.py"}, s \in {None, "x = 1"},
        e \in {None, "NameError"}}

\* ContextManager._build_task_context: a line for each member of self.task
\* that is set.
build_task_lines(task) ==
    {<<k, task[k]>> : k \in {m \in DOMAIN task : task[m] /= None}}

\* process_stream up to its first await: set_task_context replaces
\* self.task of the shared manager, then classify_task is awaited.
SharedSetTaskContext(r) ==
    /\ shr.req[r].pc = "idle"
    /\ \E supplied \in SuppliedContexts :
          shr' = [shr EXCEPT
                     !.task = supplied,
                     !.req[r] = [pc |-> "classifying", supplied |-> supplied,
                                 prompt |-> {}]]
    /\ UNCHANGED besidesShr

\* classify_task returns and the classification event is yielded.
SharedClassified(r) ==
    /\ shr.req[r].pc = "classifying"
    /\ shr' = [shr EXCEPT !.req[r].pc = "classified"]
    /\ UNCHANGED besidesShr

\* The generator is resumed: get_context_for_task builds the task part of
\* the prompt from self.task as it is now.
SharedBuildsPrompt(r) ==
    /\ shr.req[r].pc = "classified"
    /\ shr' = [shr EXCEPT !.req[r].pc = "prompted",
                          !.req[r].prompt = build_task_lines(shr.task)]
    /\ UNCHANGED besidesShr

\* The request has ended: the next request of the client.
SharedNextRequest(r) ==
    /\ shr.req[r].pc = "prompted"
    /\ shr' = [shr EXCEPT !.req[r] = IdleShared]
    /\ UNCHANGED besidesShr

SharedContextNext ==
    \E r \in ConcurrentRequests :
        \/ SharedSetTaskContext(r)
        \/ SharedClassified(r)
        \/ SharedBuildsPrompt(r)
        \/ SharedNextRequest(r)

SharedContextSpec == FullEnvironment /\ [][SharedContextNext]_vars

----------------------------------------------------------------------------
(* A model picked from /models/list and sent back as selected_model:       *)
(* routers/agent.py (list_models), orchestrator.py (the selected_model     *)
(* split), config.py of the backend and of quasar-cli (PROVIDERS)          *)

\* AgentConfig.PROVIDERS: for each provider whether it is enabled and its
\* model keys.
BackendProviders ==
    [ ollama     |-> [enabled |-> TRUE,
                      models |-> {"chat", "code", "reasoning", "agentic", "test"}],
      cerebras   |-> [enabled |-> TRUE,
                      models |-> {"orchestrator", "complex", "code_gen", "test"}],
      groq       |-> [enabled |-> TRUE,
                      models |-> {"fast", "versatile", "code", "reasoning", "test"}],
      cloudflare |-> [enabled |-> TRUE,
                      models |-> {"llama", "llama_fast", "qwen", "test"}] ]

CliProviders ==
    [ ollama     |-> [enabled |-> TRUE,
                      models |-> {"glm-4.7:cloud", "gpt-oss:120b-cloud",
                                  "qwen3-coder:480b-cloud",
                                  "deepseek-v3.1:671b-cloud",
                                  "deepseek-v3.2:cloud"}],
      cerebras   |-> [enabled |-> TRUE,
                      models |-> {"zai-glm-4.7",
                                  "qwen-3-235b-a22b-instruct-2507"}],
      groq       |-> [enabled |-> TRUE,
                      models |-> {"openai/gpt-oss-120b", "openai/gpt-oss-20b",
                                  "llama-3.3-70b-versatile",
                                  "meta-llama/llama-4-scout-17b-16e-instruct"}],
      cloudflare |-> [enabled |-> FALSE, models |-> {}] ]

ProviderConfigs == {BackendProviders, CliProviders}

\* list_models: provider and model_key of every model of every enabled
\* provider.
list_models(providers) ==
    UNION {{[provider |-> p, model_key |-> k] : k \in providers[p].models} :
              p \in {q \in DOMAIN providers : providers[q].enabled}}

\* str.split(sep) for a separator of one character.
RECURSIVE str_split(_, _)
str_split(s, sep) ==
    LET hits == {i \in 1..Len(s) : SubSeq(s, i, i) = sep}
    IN  IF hits = {} THEN <<s>>
        ELSE LET i == CHOOSE h \in hits : \A j \in hits : h <= j
             IN  <<SubSeq(s, 1, i - 1)>> \o str_split(SubSeq(s, i + 1, Len(s)), sep)

\* provider, model_key = selected_model.split("/"): the assignment to two
\* names raises ValueError unless there are two parts.
split_selected_model(selected_model) ==
    LET parts == str_split(selected_model, "/")
    IN  IF Len(parts) = 2 THEN Returned(<<parts[1], parts[2]>>)
        ELSE Raised("ValueError")

\* The functions that split selected_model.
SplitSites ==
    {"_simple_invoke", "_agentic_loop", "_simple_stream", "_agentic_loop_stream"}

\* The client picks an entry of the list and sends "<provider>/<model_key>"
\* with its request; the function that serves the request splits it.
SelectListedModel ==
    /\ ~pick.given
    /\ \E providers \in ProviderConfigs, site \in SplitSites :
          \E entry \in list_models(providers) :
             LET selected_model == entry.provider \o "/" \o entry.model_key
             IN  pick' = [given |-> TRUE, entry |-> entry, site |-> site,
                         selected_model |-> selected_model,
                         parsed |-> split_selected_model(selected_model)]
    /\ UNCHANGED besidesPick

\* The request has ended: the next selection.
SelectionForgotten ==
    /\ pick.given
    /\ pick' = NoSelection
    /\ UNCHANGED besidesPick

SelectionNext == SelectListedModel \/ SelectionForgotten

SelectionSpec == FullEnvironment /\ [][SelectionNext]_vars

----------------------------------------------------------------------------
(* Vocabulary of the properties *)

\* The request has ended: its generator or coroutine returned, or an
\* exception left it.
Ended == req.pc \in {"finished", "raised"}

\* The step is a model invocation of the streaming agentic loop that fails
\* with a rate-limit signal.
RateLimitStep ==
    /\ req.kind = "stream"
    /\ req.pc = "invoke"
    /\ req'.outcome = "ratelimit"
    /\ req'.pc /= "invoke"

\* Provider p has an active credential other than the one under its cursor.
HasOtherActive(cr, cu, p) ==
    /\ p \in DOMAIN cr
    /\ \E i \in 1..Len(cr[p]) : i /= cu[p] + 1 /\ cr[p][i]

\* 1-based position of provider p in the chain of the task (0: not in it).
ChainIndex(task, p) ==
    LET chain == get_models_for_task(task)
        hits  == {k \in 1..Len(chain) : chain[k][1] = p}
    IN  IF hits = {} THEN 0 ELSE CHOOSE k \in hits : TRUE

\* The model of chain entry k, NoModel when the entry is not usable: no
\* model can be built for it or its class cannot bind tools.
UsableEntry(cr, cu, task, k) ==
    LET chain == get_models_for_task(task)
        model == get_model_for_provider(cr, cu, chain[k][1], chain[k][2])
    IN  IF CanBind(model) THEN model ELSE NoModel

\* Position of the first usable chain entry after position k (0: none).
NextUsable(cr, cu, task, k) ==
    LET chain == get_models_for_task(task)
        later == {j \in (k + 1)..Len(chain) : UsableEntry(cr, cu, task, j) /= NoModel}
    IN  IF later = {} THEN 0 ELSE CHOOSE j \in later : \A i \in later : j <= i

\* The reported model name names the model of handle h: it is the name the
\* handle was built with or the config key of that name.
NameIdentifies(label, h) ==
    \/ label = h.name
    \/ /\ HasModelKey(h.provider, label)
       /\ ProviderModels[h.provider][label] = h.name

----------------------------------------------------------------------------
(* Properties *)

\* C1: the event sequence of a streaming request never holds more than one
\* terminal event (done or error), nothing follows a terminal event, and a
\* request that has ended has emitted exactly one, as its last event.
C1_OneTerminalEventLast ==
    req.kind = "stream" =>
        /\ mon.terminals <= 1
        /\ ~mon.afterTerminal
        /\ Ended => (mon.terminals = 1 /\ mon.last \in TerminalTypes)

\* C2: every streaming request that has started comes to its end (done or
\* error emitted, no more model invocations), whatever the models answer.
C2_StreamTerminates ==
    (req.kind = "stream" /\ req.pc = "select") ~> Ended

\* C3: while selected_model pins a provider, no model of another provider
\* is invoked for the request, on the streaming and the non-streaming path.
C3_PinnedStaysOnProvider ==
    IsPinned(req.selected) => req.invoked \subseteq {req.selected[1]}

\* C4: a rate-limited invocation of the streaming agentic loop whose
\* provider has another active credential moves that provider's cursor to
\* an active credential and retries the same iteration with a model of the
\* same provider built on the new credential; the reported provider (the
\* chain position) stays and the iteration counter is given back.
C4_RotateAndRetrySameProvider ==
    [][ (RateLimitStep /\ HasOtherActive(creds, cursor, req.handle.provider)) =>
            LET p == req.handle.provider
            IN  /\ cursor'[p] /= cursor[p]
                /\ creds'[p][cursor'[p] + 1]
                /\ req'.pc = "loop"
                /\ req'.iteration = req.iteration - 1
                /\ req'.handle.provider = p
                /\ req'.handle.cred = cursor'[p]
                /\ req'.provider = req.provider ]_vars

\* C5: a rate-limited invocation of the streaming agentic loop whose
\* provider has no other active credential: a pinned request ends with an
\* error event; an Auto request with a usable chain entry after the current
\* one retries the iteration with the model of the first such entry.
C5_FallbackOrPinnedError ==
    [][ (RateLimitStep /\ ~HasOtherActive(creds, cursor, req.handle.provider)) =>
            IF IsPinned(req.selected)
            THEN req'.pc = "finished" /\ mon'.last = "error"
            ELSE LET k == ChainIndex(req.task, req.handle.provider)
                     j == NextUsable(creds', cursor', req.task, k)
                 IN  j /= 0 =>
                        /\ req'.pc = "loop"
                        /\ req'.iteration = req.iteration - 1
                        /\ req'.handle = UsableEntry(creds', cursor', req.task, j) ]_vars

\* C6: the provider and the model name of a done event and of a successful
\* AgentResponse are those of the model that produced the latest response.
C6_ReportedModelIsProducer ==
    /\ (req.kind = "stream" /\ req.pc = "finished" /\ mon.last = "done") =>
          /\ mon.final.provider = req.handle.provider
          /\ NameIdentifies(mon.final.model, req.handle)
    /\ (req.kind = "sync" /\ req.pc = "finished" /\ req.response.flag = "success") =>
          /\ req.response.provider = req.handle.provider
          /\ NameIdentifies(req.response.model, req.handle)

\* C7: a model invocation that fails with an error other than a rate-limit
\* signal leaves every credential's active flag and every cursor as they
\* were, in the agentic loops and in invoke_with_fallback.
C7_OnlyRateLimitRotates ==
    [][ (/\ req.pc \in {"invoke", "simple", "iwf"}
         /\ req' /= req
         /\ req'.outcome = "error")
        => (creds' = creds /\ cursor' = cursor) ]_vars

\* C8: a call rotate(p) never raises; it leaves the credential that was
\* under the cursor inactive; it returns true exactly when a credential of
\* p is active after it, and the cursor then points at an active one.
C8_RotateContract ==
    [][ (rot'.result /= "none"
         /\ <<creds', cursor', rot'>> /= <<creds, cursor, rot>>) =>
            LET p == rot'.provider
            IN  /\ rot'.result /= "raise"
                /\ (p \in DOMAIN creds /\ cursor[p] < Len(creds[p]))
                       => ~creds'[p][cursor[p] + 1]
                /\ (rot'.result = "true")
                       <=> (p \in DOMAIN creds' /\ \E i \in 1..Len(creds'[p]) : creds'[p][i])
                /\ (rot'.result = "true") => creds'[p][cursor'[p] + 1] ]_vars

\* C9: in the stream of a request every tool_start is followed by the
\* tool_complete of the same tool before the next tool_start, the next model
\* invocation or the end of the stream, so the numbers of tool_start and
\* tool_complete events are equal when the request ends.
C9_ToolStartCompletePaired ==
    /\ ~mon.badStart
    /\ ~mon.badComplete
    /\ mon.starts - mon.completes \in {0, 1}
    /\ (mon.starts /= mon.completes) => (req.pc = "tool_run" /\ mon.open /= "")
    /\ (req.kind = "stream" /\ Ended) => mon.starts = mon.completes

\* A request ended with done after two tool calls, each completed.
C9_Witness ==
    /\ req.kind = "stream"
    /\ req.pc = "finished"
    /\ mon.starts = 2
    /\ mon.completes = 2
    /\ mon.last = "done"

\* C10: the first event of a stream is the classification event; every
\* tool_start carries the iteration of the latest iteration event; an
\* iteration event is yielded only when every tool call of the earlier
\* response has been started and completed.
C10_CausalOrder ==
    /\ mon.first \in {"none", "classification"}
    /\ ~mon.startNoIter
    /\ ~mon.iterWhileOpen
    /\ (req.kind = "stream" /\ req.pc = "invoke") =>
          (req.toolq = << >> /\ mon.starts = mon.completes
             /\ mon.lastIter = req.iteration)

\* A request in its second iteration or later with a tool call started.
C10_Witness ==
    /\ req.kind = "stream"
    /\ req.pc = "tool_run"
    /\ mon.lastIter >= 2
    /\ mon.starts >= 2
    /\ mon.first = "classification"

\* C11: the iterations value of every done event lies in 1..MAX_ITER.
C11_DoneIterationsInRange ==
    mon.final.type = "done" =>
        (mon.final.iter >= 1 /\ mon.final.iter <= MAX_TOOL_ITERATIONS)

\* A done event with iterations = MAX_ITER in a request whose loop switched
\* provider after a rate-limit signal.
C11_Witness ==
    /\ req.kind = "stream"
    /\ mon.last = "done"
    /\ mon.final.iter = MAX_TOOL_ITERATIONS
    /\ Cardinality(req.invoked) >= 2

\* C12: the loop detector declares a loop exactly when the three latest
\* tool calls it was given have the same name and the same arguments.
C12_LoopExactlyOnThreeIdentical ==
    det.looping <=>
        /\ Len(det.calls) = 3
        /\ det.calls[1] = det.calls[2]
        /\ det.calls[2] = det.calls[3]

\* C13: in one request the summary demand is appended to the message list
\* at most once and the iteration_warning event is emitted at most once,
\* also when the iteration with one iteration remaining is retried after a
\* rate-limit signal and when the last iteration runs.
C13_SummaryAndWarningOnce ==
    req.kind = "stream" => (req.summaries <= 1 /\ mon.warnings <= 1)

\* C14: a done event of the streaming loop that reports iterations =
\* MAX_ITER carries max_iterations_reached, whatever the last turn of the
\* model was.
C14_DoneAtMaxIsFlagged ==
    (req.kind = "stream" /\ mon.final.type = "done"
                         /\ mon.final.iter = MAX_TOOL_ITERATIONS)
        => mon.final.flag = "max_iterations_reached"

\* The path argument is one the sandbox rule lets through: no ".." in it
\* and it resolves to the workspace root or below.
Acceptable(path) ==
    /\ ~HasDotDot(path)
    /\ IsRelativeTo(ResolveFrom(IF path.abs THEN << >> ELSE Workspace,
                                path.parts), Workspace)

\* C15: a file-tool call with a path argument that has ".." in it or
\* resolves outside the workspace returns the sandbox error without having
\* performed any filesystem operation and leaves the files as they were;
\* the operations of any call lie inside the workspace.
C15_RejectedBeforeAnyIo ==
    [][ sbx' /= sbx =>
          /\ (\E i \in DOMAIN sbx'.args : ~Acceptable(sbx'.args[i]))
                => /\ sbx'.verdict = "rejected"
                   /\ sbx'.io = {}
                   /\ sbx'.files = sbx.files
          /\ \A r \in sbx'.io : IsRelativeTo(r.loc, Workspace) ]_vars

\* C16: an operation of a request that has user keys installed for the
\* provider works on those keys and leaves the process-wide list and cursor
\* of the provider as they were; a request without user keys gets the
\* process-wide entry; no operation returns keys or settings of another
\* request or touches another request's context; a context that belongs to
\* no running request holds no user keys and no settings.
C16_UserKeysAreRequestLocal ==
    [][ usr' /= usr =>
          LET op  == usr'.last
              r   == op.req
              had == usr.ctx[r].creds /= NoOverride
              store_ops == {"get", "rotate", "is_available"}
          IN  /\ (op.op \in store_ops /\ had)
                    => /\ op.scope = "user"
                       /\ op.owner \in {r, "none"}
                       /\ creds' = creds
                       /\ cursor' = cursor
              /\ (op.op \in store_ops /\ ~had)
                    => /\ op.scope = "process"
                       /\ op.owner \in {"env", "none"}
              /\ op.op = "get_setting" => op.owner \in {r, "none"}
              /\ \A q \in Requests \ {r} : usr'.ctx[q] = usr.ctx[q]
              /\ \A q \in Requests \ usr'.live : usr'.ctx[q] = EmptyContext
      ]_vars

\* A request rotated its own two user keys while another request without
\* user keys was running and the process-wide store had keys of its own.
C16_Witness ==
    /\ usr.last.op = "rotate"
    /\ usr.last.scope = "user"
    /\ usr.last.result = "true"
    /\ \E q \in usr.live : q /= usr.last.req /\ usr.ctx[q].creds = NoOverride
    /\ Len(creds[UserProvider]) = NumKeySlots
    /\ \A i \in 1..NumKeySlots : creds[UserProvider][i]

\* C19: every tool call the loop dispatched has its entry in the execution
\* history, and the tool_calls_count reported at the end of the request is
\* the number of tool calls dispatched (of tool_start events).
C19_HistoryCountsEveryDispatch ==
    /\ Len(exe.execution_history) = exe.tool_starts
    /\ exe.done => exe.tool_calls_count = exe.tool_starts

\* C20: when the operation of a dispatched tool times out, the message
\* appended to the conversation is the one that names the timeout, the loop
\* goes on to the next tool call or the next iteration without a terminal
\* event, and the model invocation that follows has that message at the end
\* of its message list (a summary demand alone may come after it).
C20_TimeoutReportedLoopContinues ==
    [][ /\ (req.kind = "stream" /\ req.pc = "tool_run" /\ req' /= req
                                /\ req'.timed_out)
            => /\ req'.last_msg = "tool_timeout"
               /\ req'.pc \in {"tools", "loop"}
               /\ mon'.terminals = mon.terminals
               /\ mon'.last \notin TerminalTypes
        /\ (req'.kind = "stream" /\ req'.pc = "invoke" /\ req'.timed_out)
            => \/ req'.last_msg = "tool_timeout"
               \/ (req'.last_msg = "summary" /\ ~req'.prev_summary) ]_vars

\* The model is invoked again after a tool call that timed out; the message
\* list ends with the timeout message and the summary demand of the loop
\* top.
C20_Witness ==
    /\ req.kind = "stream"
    /\ req.pc = "invoke"
    /\ req.timed_out
    /\ req.last_msg = "summary"
    /\ ~req.prev_summary
    /\ mon.completes >= 1
    /\ mon.terminals = 0

\* C17: after every add_message the conversation history is shorter than
\* twice summarize_threshold; when the message added brings the length to
\* twice summarize_threshold, the history afterwards is exactly the latest
\* summarize_threshold messages, in the order they were added, and the
\* conversation summary is not empty; otherwise the message is added at
\* the end and nothing is removed.
C17_HistoryTrimmedToLatest ==
    [][ (ctx'.op = "add_message" /\ ctx' /= ctx)
          => /\ Len(ctx'.history) >= 1
             /\ Len(ctx'.history) < 2 * summarize_threshold
             /\ LET added == ctx'.history[Len(ctx'.history)]
                    all == Append(ctx.history, added)
                IN  IF Len(all) >= 2 * summarize_threshold
                    THEN /\ Len(ctx'.history) = summarize_threshold
                         /\ \A i \in 1..summarize_threshold :
                               ctx'.history[i]
                                 = all[Len(all) - summarize_threshold + i]
                         /\ ctx'.summary.present
                    ELSE ctx'.history = all ]_vars

\* An add_message has just summarized: the history holds summarize_threshold
\* messages, not all alike, and the summary counts a user message among the
\* ones removed.
C17_Witness ==
    /\ ctx.op = "add_message"
    /\ Len(ctx.history) = summarize_threshold
    /\ ctx.summary.present
    /\ ctx.summary.user_count >= 1
    /\ ctx.history[1] /= ctx.history[Len(ctx.history)]

\* C18: for every task type and every state of the context, the strings
\* get_context_for_task returns keep to the budget row of the task type: the
\* task section within the task allowance, the summary section within the
\* summary allowance, and the sections together within the total.
C18_ContextWithinBudget ==
    ctx.op = "get_context_for_task"
      => LET built == ctx.context
             budget == BudgetFor(built.type)
         IN  /\ built.task <= budget.task
             /\ built.summary <= budget.summary
             /\ built.permanent + built.task + built.summary + built.session
                  <= budget.total

\* C21: within one request tool operations never overlap: while the model
\* is invoked and while the loop is between two tool calls no operation is
\* running, while a tool call is awaited only its own operation is, and no
\* operation changes the workspace after its timeout result was returned.
C21_ToolOperationsNeverOverlap ==
    /\ run.pc \in {"model", "loop", "end"} => run.live = {}
    /\ run.pc = "tool" => run.live \subseteq {run.current}
    /\ run.late = {}

\* C22: for every tool result value the text handed to the model holds at
\* most 30,000 characters of a file-content result and at most 10,000 of
\* any other result, and it carries the truncation tag exactly when
\* characters were cut.
C22_ResultTextCapped ==
    fmt.given
      => /\ fmt.text.chars <= (IF fmt.kind = "content_dict"
                               THEN MAX_FILE_CONTENT_CHARS
                               ELSE MAX_OTHER_RESULT_CHARS)
         /\ (fmt.text.note \in {"[TRUNCATED]", "[TRUNCATED - result too long]"})
               <=> (fmt.text.chars < fmt.size)

\* The latest call, or the one before it, was made with this tool.
LastIs(tool) == doc.given /\ doc.last.tool = tool
PrevIs(tool) == doc.given /\ doc.prev.tool = tool

\* The lines of a file as a reader sees them: one more than its line
\* breaks.
LinesOf(node) ==
    1 + Cardinality({i \in 1..Len(read_text(node)) : read_text(node)[i] = LF})

\* C23: create_file on a path that exists, called without overwrite,
\* returns the already-exists error with a hint and leaves what is at the
\* path as it was; called with overwrite on an existing file, the file's
\* content becomes the given content.
C23_CreateRefusesOverwrite ==
    (LastIs("create_file") /\ doc.last.before.kind /= "absent")
      => IF ~doc.last.overwrite
         THEN /\ doc.last.result.error = "File already exists"
              /\ doc.last.result.hint
              /\ doc.node = doc.last.before
         ELSE doc.last.before.kind = "file"
                => /\ doc.last.result.error = ""
                   /\ doc.node = FileOf(doc.last.content)

\* create_file without overwrite met a file of another content.
C23_Witness ==
    /\ LastIs("create_file")
    /\ ~doc.last.overwrite
    /\ doc.last.before.kind = "file"
    /\ doc.last.before.bytes /= doc.last.content
    /\ doc.last.result.error /= ""

\* C24: for a path with nothing at it and a content c of at most MAX_LINES
\* lines, create_file(p, c) followed by read_file(p) returns content equal
\* to c.
C24_CreateThenReadReturnsContent ==
    ( /\ PrevIs("create_file")
      /\ doc.prev.before = Absent
      /\ Len(split_lines(doc.prev.content)) <= MAX_LINES
      /\ LastIs("read_file") )
      => /\ doc.last.result.has_content
         /\ doc.last.result.content = doc.prev.content

\* The first patch replaced the one occurrence of x by y, the second is
\* called to put x back.
PatchedThereAndBack ==
    /\ PrevIs("patch_file")
    /\ LastIs("patch_file")
    /\ doc.prev.before.kind = "file"
    /\ doc.prev.occurrence = 1
    /\ doc.last.occurrence = 1
    /\ str_count(read_text(doc.prev.before), doc.prev.find_text) = 1
    /\ doc.last.find_text = doc.prev.replace_text
    /\ doc.last.replace_text = doc.prev.find_text

SplitRead ==
    /\ PrevIs("read_file_chunk")
    /\ LastIs("read_file_chunk")
    /\ doc.node.kind = "file"
    /\ doc.prev.start_line <= 1
    /\ doc.prev.end_line >= 1
    /\ doc.prev.end_line < LinesOf(doc.node)
    /\ doc.last.start_line = doc.prev.end_line + 1
    /\ doc.last.end_line >= LinesOf(doc.node)

\* C27: for a file of n lines and a split point k with 1 <= k < n, the
\* content of read_file_chunk(p, start <= 1, k), a line feed and the
\* content of read_file_chunk(p, k + 1, end >= n) make the file's content;
\* every chunk returned holds the lines it says it holds, has_more_before
\* is true exactly when it does not start at line 1 and has_more_after
\* exactly when it does not end at the last line.
C27_ChunksMakeTheFile ==
    /\ SplitRead
         => /\ doc.prev.result.has_content
            /\ doc.last.result.has_content
            /\ doc.prev.result.content \o <<LF>> \o doc.last.result.content
                 = read_text(doc.node)
    /\ (LastIs("read_file_chunk") /\ doc.last.result.has_content)
         => LET res == doc.last.result
                lines == split_lines(read_text(doc.node))
                stop == res.start_line + res.lines_in_chunk - 1
            IN  /\ res.lines_in_chunk >= 1
                /\ stop <= Len(lines)
                /\ res.content = join_lines(SubSeq(lines, res.start_line, stop))
                /\ res.has_more_before <=> (res.start_line /= 1)
                /\ res.has_more_after <=> (stop /= LinesOf(doc.node))

\* A file of three lines or more read in two chunks, the second of which
\* has lines before it and none after.
C27_Witness ==
    /\ SplitRead
    /\ LinesOf(doc.node) >= 3
    /\ doc.last.result.has_content
    /\ doc.last.result.has_more_before
    /\ ~doc.last.result.has_more_after
    /\ ~doc.prev.result.has_more_before
    /\ doc.prev.result.has_more_after

C26_MoveThereAndBackRestores ==
    ( /\ tree.given
      /\ tree.prev /= NoCall
      /\ tree.origin[tree.prev.source] /= "none"
      /\ tree.last.source = tree.prev.destination
      /\ tree.last.destination = tree.prev.source )
      => tree.now = tree.origin

\* The items of the directory listed that list_files counts as files,
\* resp. directories.
Counted(kind) ==
    {i \in 1..Len(lst.items) :
        /\ lst.items[i].kind = kind
        /\ ~(lst.recursive /\ lst.items[i].ignored)}

ModelUnreachable == cls.model = NoModel \/ cls.reply.raised

\* The model answered and the parsing steps got no JSON value out of it.
AnswerNotJson ==
    /\ cls.model /= NoModel
    /\ ~cls.reply.raised
    /\ parse_answer(cls.reply.value).raised

\* The model answered with a JSON object whose task_type is no value of
\* the enumeration.
NamesUnknownTaskType ==
    /\ cls.model /= NoModel
    /\ ~cls.reply.raised
    /\ LET data == parse_answer(cls.reply.value)
       IN  /\ ~data.raised
           /\ data.value.kind = "dict"
           /\ data.value.task_type \notin TaskType \cup {Missing}

\* C30: classify_task returns a TaskClassification and raises nothing; the
\* task_type of the result is a value of the TaskType enumeration; when the
\* classifier model is unreachable, when no JSON can be parsed out of its
\* answer, or when the JSON names a task type outside the enumeration, the
\* result is what the keyword classifier gives for the query.
C30_ClassifyNeverRaisesAndFallsBack ==
    cls.given =>
        /\ ~cls.result.raised
        /\ cls.result.value.task_type \in TaskType
        /\ (ModelUnreachable \/ AnswerNotJson \/ NamesUnknownTaskType)
              => cls.result.value = _fallback_classification(cls.query)

\* A model was there and answered a task type outside the enumeration, for
\* a query whose keywords say bug fixing: the keyword result was returned.
C30_Witness ==
    /\ cls.given
    /\ NamesUnknownTaskType
    /\ cls.reply.value.body.task_type = "poetry"
    /\ "error" \in cls.query
    /\ cls.result = Returned(TaskClassification("bug_fixing", 7, "medium"))

\* --- C31 ---

\* The categories of the keyword classifier in their order of precedence.
CategoryOrder ==
    <<"bug_fixing", "code_generation_multi", "code_generation",
      "code_explain_simple", "refactor", "test_generation">>

\* A word of the list occurs in the lower-cased query.
HasWordOf(list, query) ==
    LET lowered == str_lower(query)
    IN  \E kw \in KeywordLists[list] : Contains(lowered, kw)

\* The keywords of the category occur in the lower-cased query; multi-file
\* generation asks for a generation word and a word of size.
CategoryOccurs(category, query) ==
    CASE category = "bug_fixing" -> HasWordOf("error", query)
      [] category = "code_generation_multi" ->
            HasWordOf("create", query) /\ HasWordOf("complete", query)
      [] category = "code_generation" -> HasWordOf("create", query)
      [] category = "code_explain_simple" -> HasWordOf("explain", query)
      [] category = "refactor" -> HasWordOf("refactor", query)
      [] category = "test_generation" -> HasWordOf("test", query)

FirstCategory(query) ==
    LET occurring == {i \in 1..Len(CategoryOrder) :
                         CategoryOccurs(CategoryOrder[i], query)}
    IN  IF occurring = {} THEN "chat"
        ELSE CategoryOrder[CHOOSE i \in occurring : \A j \in occurring : i <= j]

\* C31: the keyword classifier returns the first category, in the order bug
\* fixing, multi-file generation, single-file generation, explanation,
\* refactor, testing, whose keywords occur in the lower-cased query, and
\* chat when none occurs; a query with a bug keyword is classified
\* bug_fixing whatever else it holds.
C31_FirstCategoryInOrder ==
    kwd.given =>
        /\ kwd.result.task_type = FirstCategory(kwd.query)
        /\ HasWordOf("error", kwd.query) => kwd.result.task_type = "bug_fixing"

\* The query of the example, whose keywords are written with capitals, was
\* classified bug_fixing.
C31_Witness ==
    /\ kwd.given
    /\ kwd.query = "Fix the NameError on line 10"
    /\ kwd.result.task_type = "bug_fixing"

\* --- C32 ---

\* The entries of the execution history whose call succeeded.
Succeeded(history) == {i \in DOMAIN history : history[i].success}

\* C32: when a request fails after tool calls were executed, the result
\* has success = false, its tools_used are the tools that completed and its
\* tool_calls_count is the number of tool calls that succeeded before the
\* failure; failed, timed-out and unknown-tool calls are not counted.
C32_PartialResultCountsCompleted ==
    (exe.response.given /\ exe.tool_starts > 0) =>
        /\ ~exe.response.success
        /\ exe.response.tools_used =
              {exe.execution_history[i].tool_name :
                  i \in Succeeded(exe.execution_history)}
        /\ exe.response.tool_calls_count =
              Cardinality(Succeeded(exe.execution_history))

\* --- C33 ---

\* C33: in the path without tools a rate-limit signal of the model does
\* not end the request while the provider in use has a credential left to
\* rotate to: an error is surfaced at the signal only when the credentials
\* of that provider are exhausted.
C33_SimplePathRotatesOnRateLimit ==
    [][ (/\ req.pc = "simple"
         /\ req'.pc = "finished"
         /\ req'.outcome = "ratelimit"
         /\ req'.handle.provider /= "ollama")
        => ~HasCredential(creds', cursor', req'.handle.provider) ]_vars

\* --- C34 ---

\* The command holds a pattern of the blocklist, whatever the case of its
\* letters.
MatchesBlocklist(command) ==
    LET lowered == str_lower(command)
    IN  \E pattern \in dangerous_patterns : Contains(lowered, pattern)

\* C34: run_terminal_command starts no subprocess for a command that
\* matches the blocklist of destructive patterns, in any letter case; it
\* returns a failed result with exit_code -1 and leaves the terminal output
\* buffer as it was.
C34_BlockedCommandNeverRuns ==
    (trm.given /\ MatchesBlocklist(trm.command)) =>
        /\ ~trm.result.started
        /\ ~trm.result.success
        /\ trm.result.exit_code = -1
        /\ trm.buffer = trm.before

\* A shutdown written with a capital was refused after earlier commands had
\* left output in the buffer.
C34_Witness ==
    /\ trm.given
    /\ trm.command = "sudo Shutdown now"
    /\ trm.result.blocked
    /\ ~trm.result.started
    /\ trm.before /= << >>
    /\ trm.buffer = trm.before

\* --- C35 ---

\* C35: with two concurrent requests on the shared credential store, a
\* credential is inactive only after an invocation that used that very
\* credential returned a rate-limit signal; two requests that fail on the
\* same credential deactivate that one credential only.
C35_OnlySignalledCredentialDeactivated ==
    \A p \in Providers \ {"ollama"} :
        \A i \in 1..Len(creds[p]) :
            ~creds[p][i] => <<p, i - 1>> \in par.signalled

\* --- C36 ---

\* C36: with two requests running concurrently on the shared orchestrator,
\* the task context in a request's prompt is the one that request
\* supplied, also when the other request has called set_task_context while
\* the first was suspended in its classification.
C36_PromptHoldsOwnTaskContext ==
    \A r \in ConcurrentRequests :
        shr.req[r].pc = "prompted" =>
            shr.req[r].prompt = build_task_lines(shr.req[r].supplied)

\* --- C37 ---

\* The places (0-based) of the occurrences of x in the text that do not
\* overlap, from left to right: the occurrences text.count(x) counts.
RECURSIVE OccurrenceStarts(_, _, _)
OccurrenceStarts(text, x, start) ==
    LET idx == str_find(text, x, start)
    IN  IF idx = -1 THEN << >>
        ELSE <<idx>> \o OccurrenceStarts(text, x,
                            idx + (IF x = << >> THEN 1 ELSE Len(x)))

\* The text with the occurrences of x at the given places replaced by y,
\* the places taken from the last to the first.
RECURSIVE ReplacedAt(_, _, _, _)
ReplacedAt(text, x, y, places) ==
    IF places = << >> THEN text
    ELSE LET at == places[Len(places)]
             rest == SubSeq(text, 1, at) \o y
                       \o SubSeq(text, at + Len(x) + 1, Len(text))
         IN  ReplacedAt(rest, x, y, SubSeq(places, 1, Len(places) - 1))

\* C37: patch_file with occurrence n between 1 and occurrences_found
\* replaces one occurrence of find_text, the n-th of the occurrences that
\* occurrences_found counts (those that do not overlap); with occurrence 0
\* all of them are replaced and replacements equals occurrences_found; with
\* n above occurrences_found or find_text absent the file is left as it
\* was and an error is returned.
C37_PatchReplacesNthOccurrence ==
    (doc.given /\ doc.last /= NoCall /\ doc.last.tool = "patch_file"
        /\ doc.last.before.kind = "file") =>
        LET call    == doc.last
            content == read_text(call.before)
            places  == OccurrenceStarts(content, call.find_text, 0)
            n       == call.occurrence
        IN  IF places = << >> \/ n > Len(places)
            THEN doc.node = call.before /\ call.result.error /= ""
            ELSE /\ call.result.error = ""
                 /\ call.result.occurrences_found = Len(places)
                 /\ IF n = 0
                    THEN /\ call.result.replacements = Len(places)
                         /\ doc.node = FileOf(ReplacedAt(content, call.find_text,
                                                call.replace_text, places))
                    ELSE /\ call.result.replacements = 1
                         /\ doc.node = FileOf(ReplacedAt(content, call.find_text,
                                                call.replace_text, <<places[n]>>))

\* --- C38 ---

\* C38: every TaskClassification classify_task returns, built from the
\* model's JSON or by the keyword classifier, has a confidence within
\* [0, 1] (0 to 10 tenths) and an estimated_complexity among low, medium
\* and high.
C38_ClassificationWithinRanges ==
    (cls.given /\ ~cls.result.raised) =>
        /\ cls.result.value.confidence \in 0..10
        /\ cls.result.value.estimated_complexity \in {"low", "medium", "high"}

\* --- C39 ---

\* C39: for every provider and model key that /models/list returns, the
\* request with selected_model = "<provider>/<model_key>" is parsed back to
\* that provider and that model key, also when the model key holds a "/".
C39_SelectedModelParsedBack ==
    pick.given =>
        /\ ~pick.parsed.raised
        /\ pick.parsed.value = <<pick.entry.provider, pick.entry.model_key>>

\* --- C40 ---

\* The path argument leads to the workspace root itself.
ResolvesToRoot(path) ==
    ResolveFrom(IF path.abs THEN << >> ELSE Workspace, path.parts) = Workspace

\* C40: no file-tool call removes or relocates the workspace root:
\* delete_file and move_file on a path that resolves to the root (such as
\* ".") are refused and perform no write in the workspace.
C40_WorkspaceRootKept ==
    (sbx.tool \in {"delete_file", "move_file"} /\ ResolvesToRoot(sbx.args[1])) =>
        /\ sbx.verdict /= "done"
        /\ Io("write", Workspace) \notin sbx.io

====
